---------------------------- MODULE Spec2Model ----------------------------
(***************************************************************************)
(* A model of the LE advertising manager (system/gd/hci/                   *)
(* le_advertising_manager.cc) and of the shim that reacts to its callbacks *)
(* (main/shim le_advertising_manager).  The manager's state is the         *)
(* registry advertising_sets_, the vector enabled_sets_, id_map_, the      *)
(* flags address_manager_registered and paused, and the completions that   *)
(* the HCI layer still owes to the module handler.                         *)
(***************************************************************************)
EXTENDS Integers, Sequences, FiniteSets, TLC

(***************************************************************************)
(* Bounds of the model.                                                    *)
(***************************************************************************)
MaxAdvInstances == 2      \* advertising sets the controller reports
FewAdvInstances == 1      \* the same, where one set shows the behaviour
MaxHci == 8               \* command completions in flight at once
MaxCalls == 4             \* calls of the clients and of the address manager
MaxEvents == 2            \* events of the controller and of the alarm
NumAddr == 1              \* distinct values a minted random address takes
MaxSelTx == 0             \* largest tx power the controller selects
MaxDuration == 1          \* longest duration a client asks for
MaxExtAdvEvents == 1      \* most advertising events a client asks for
MaxWrites == 1            \* data writes the clients make in one run
LongDataLength == 600     \* the data length of a controller with long advertising

(***************************************************************************)
(* Program constants.                                                      *)
(***************************************************************************)
kIdLocal == 255
kLenOfFlags == 3
kInvalidId == 255
kInvalidHandle == 255
kLeMaximumFragmentLength == 252
kLeMaximumGapDataLength == 254
kLeMaximumLegacyAdvertisingDataLength == 31
kLeMaximumPeriodicDataFragmentLength == 252
kAdvertiserClientIdJni == 255
kAdvertiserClientIdLeAudio == 1
kRandomizerLen == 5
kMicLen == 4
kRandBytes == 8
ENC_KEY_MATERIAL_LEN == 32
kUint16 == 65536
kUint8 == 256
kLeAdvertisingTxPowerMin == -127
kLeAdvertisingTxPowerMax == 20
LE_LIMITED_DISCOVERABLE == 1
LE_GENERAL_DISCOVERABLE == 2

\* enum AdvertisingApiType
ApiTypes == {"LEGACY", "ANDROID_HCI", "EXTENDED"}
\* enum AdvertiserAddressType
AddressTypes == {"PUBLIC", "RESOLVABLE_RANDOM", "NONRESOLVABLE_RANDOM"}
\* LeAddressManager::AddressPolicy
Policies == {"USE_PUBLIC_ADDRESS", "USE_STATIC_ADDRESS",
             "USE_RESOLVABLE_ADDRESS", "USE_NON_RESOLVABLE_ADDRESS"}

Min(a, b) == IF a < b THEN a ELSE b

(***************************************************************************)
(* Advertising data.  A GapData element is [type, len, val]: its data      *)
(* type, the number of bytes of data_ and the value of data_[0]; size()    *)
(* counts the length byte and the type byte as well.                       *)
(***************************************************************************)
GapData(t, n, v) == [type |-> t, len |-> n, val |-> v]
GapSize(g) == g.len + 2

GapTypeCode(t) ==
  CASE t = "FLAGS" -> 1
    [] t = "TX_POWER_LEVEL" -> 10
    [] t = "ENCRYPTED_ADVERTISING_DATA" -> 49
    [] OTHER -> 9

\* GapData::Serialize: <size - 1, type, data_...>
Serialize(g) ==
  <<(g.len + 1) % kUint8, GapTypeCode(g.type)>>
    \o [k \in 1..g.len |-> IF k = 1 THEN g.val % kUint8 ELSE k % kUint8]

RECURSIVE SerializeAll(_)
SerializeAll(data) ==
  IF data = <<>> THEN <<>> ELSE Serialize(Head(data)) \o SerializeAll(Tail(data))

RECURSIVE SumSizes(_)
SumSizes(data) ==
  IF data = <<>> THEN 0 ELSE GapSize(Head(data)) + SumSizes(Tail(data))

FirstElementSize(data) == IF data = <<>> THEN 0 ELSE GapSize(Head(data))

\* uint16_t data_len accumulated with +=
DataLen16(data) == SumSizes(data) % kUint16

data_has_flags(data) == \E i \in 1..Len(data) : data[i].type = "FLAGS"

\* data_len of the check_* functions: the sizes plus the FLAGS still to be added
CheckedLen(data, include_flag) ==
  (SumSizes(data)
     + (IF include_flag /\ ~data_has_flags(data) THEN kLenOfFlags ELSE 0)) % kUint16

check_advertising_data(data, include_flag, max_len) ==
  CheckedLen(data, include_flag) <= max_len

check_extended_advertising_data(data, include_flag, max_len, divide_gap) ==
  LET data_limit == IF divide_gap THEN kLeMaximumGapDataLength
                    ELSE kLeMaximumFragmentLength
  IN /\ \A i \in 1..Len(data) : GapSize(data[i]) <= data_limit
     /\ CheckedLen(data, include_flag) <= max_len

check_chained_data(data, include_flag) ==
  CheckedLen(data, include_flag) > kLeMaximumFragmentLength

\* packet::FragmentingInserter(mtu, ...): full packets of mtu bytes, then on
\* finalize() the rest if there is one
FragmentingInserter(mtu, bytes) ==
  [i \in 1..((Len(bytes) + mtu - 1) \div mtu) |->
     SubSeq(bytes, (i - 1) * mtu + 1, Min(i * mtu, Len(bytes)))]

\* The loop that cuts data into fragments of whole elements; the result is
\* the list of <<sub_data, operation>> handed to send_data_fragment.
RECURSIVE FragmentByElements(_, _, _, _)
FragmentByElements(data, sub_data, operation, limit) ==
  IF data = <<>> THEN << <<sub_data, "LAST_FRAGMENT">> >>
  ELSE IF (SumSizes(sub_data) % kUint16) + GapSize(Head(data)) > limit
       THEN << <<sub_data, operation>> >>
              \o FragmentByElements(Tail(data), <<Head(data)>>,
                                    "INTERMEDIATE_FRAGMENT", limit)
       ELSE FragmentByElements(Tail(data), Append(sub_data, Head(data)),
                               operation, limit)

\* EncryptedAdvertising: reversed randomizer, ciphertext as long as the
\* serialized plaintext, and the MIC
EncryptedAdvertising(data_encrypt) ==
  GapData("ENCRYPTED_ADVERTISING_DATA",
          kRandomizerLen + SumSizes(data_encrypt) + kMicLen, 0)

(***************************************************************************)
(* Address selection.                                                      *)
(***************************************************************************)
\* A selection that honours every request
HonourRequest(requested_address_type, address_policy) == requested_address_type

\* A selection that treats every set as a connectable one
PolicyOnly(requested_address_type, address_policy) ==
  IF address_policy \in {"USE_PUBLIC_ADDRESS", "USE_STATIC_ADDRESS"}
  THEN "PUBLIC" ELSE requested_address_type

GetAdvertiserAddressTypeFromRequestedTypeAndPolicy(requested_address_type, address_policy) ==
  CASE address_policy \in {"USE_PUBLIC_ADDRESS", "USE_STATIC_ADDRESS"} -> "PUBLIC"
    [] address_policy = "USE_RESOLVABLE_ADDRESS" -> requested_address_type
    [] address_policy = "USE_NON_RESOLVABLE_ADDRESS" ->
         IF requested_address_type = "RESOLVABLE_RANDOM"
         THEN "NONRESOLVABLE_RANDOM" ELSE requested_address_type

GetAdvertiserAddressTypeNonConnectable(requested_address_type, address_policy) ==
  IF address_policy \in {"USE_PUBLIC_ADDRESS", "USE_STATIC_ADDRESS"}
  THEN IF requested_address_type = "RESOLVABLE_RANDOM"
       THEN "NONRESOLVABLE_RANDOM" ELSE requested_address_type
  ELSE GetAdvertiserAddressTypeFromRequestedTypeAndPolicy(
         requested_address_type, address_policy)

\* AddressWithType: the address type on the air, where the address came from
\* and which value it has
Addr(t, src, v) == [type |-> t, src |-> src, val |-> v]
EmptyAddress == Addr("PUBLIC_DEVICE_ADDRESS", "empty", 0)
MacAddress == Addr("PUBLIC_DEVICE_ADDRESS", "mac", 0)
\* le_address_manager_->GetInitiatorAddress()
GetInitiatorAddress(address_policy) ==
  IF address_policy = "USE_PUBLIC_ADDRESS" THEN MacAddress
  ELSE Addr("RANDOM_DEVICE_ADDRESS", "initiator", 0)

(***************************************************************************)
(* The state of the manager.                                               *)
(***************************************************************************)
VARIABLES
  advertising_api_type_,                 \* chosen once in start()
  num_instances_,                        \* chosen once in start()
  le_maximum_advertising_data_length_,   \* read from the controller in start()
  address_policy,                        \* le_address_manager_->GetAddressPolicy()
  flags,                                 \* the feature flags of the build
  le_tx_path_loss_comp_,                 \* read from the system property in start()
  advertising_sets_,                     \* std::map<AdvertiserId, Advertiser>
  enabled_sets_,                         \* std::vector<EnabledSet>
  id_map_,                               \* std::map<uint8_t, int>
  address_manager_registered,
  paused,
  hci,                                   \* completions the controller owes, in order
  posts,                                 \* ResetAdvertiser calls the shim has posted
  ghost,                                 \* history kept for the properties
  ev                                     \* what the last step did


(***************************************************************************)
(* The state of the classic power manager (bta/dm/bta_dm_pm.cc): the       *)
(* connected services, the bank of timer slots with their alarms, the      *)
(* peer records of the device list, and the tasks the main thread has      *)
(* still to run.                                                           *)
(***************************************************************************)
VARIABLES
  bta_dm_conn_srvcs,      \* tBTA_DM_CONNECTED_SRVCS: conn_srvc[0 .. count - 1]
  pm_timer,               \* bta_dm_cb.pm_timer[BTA_DM_NUM_PM_TIMER]
  pm_alarm,               \* pm_timer[i].timer[j]: is it scheduled, and for how long
  device_list,            \* bta_dm_cb.device_list.peer_device, by peer address
  main_thread,            \* alarm callbacks and do_in_main_thread tasks, in order
  link,                   \* per peer, the mode of the link and the commands not answered
  pmghost,                \* history kept for the properties
  pmev                    \* what the last step of the power manager did

pmVars == <<bta_dm_conn_srvcs, pm_timer, pm_alarm, device_list, main_thread, link, pmghost, pmev>>

advVars == <<advertising_api_type_, num_instances_,
          le_maximum_advertising_data_length_, address_policy, flags,
          le_tx_path_loss_comp_,
          advertising_sets_, enabled_sets_, id_map_,
          address_manager_registered, paused, hci, posts, ghost, ev>>

(***************************************************************************)
(* The key material of encrypted advertising: the entry                    *)
(* BTIF_STORAGE_KEY_ENCR_DATA of the storage module, the buffers key_iv    *)
(* that the LE_RAND completions fill, and the completions the HCI layer    *)
(* still owes.                                                             *)
(***************************************************************************)
VARIABLES
  enc_data,               \* storage: <<>> while the entry is absent, else <<bytes>>
  key_iv,                 \* EncrDataKey: the vectors key and iv
  rand_queue,             \* the iterations bound to the LE_RAND commands in flight
  keyghost,               \* history kept for the properties
  keyev                   \* what the last step of the key material path did

keyVars == <<enc_data, key_iv, rand_queue, keyghost, keyev>>

vars == <<advVars, pmVars, keyVars>>

envVars == <<advertising_api_type_, num_instances_,
             le_maximum_advertising_data_length_, address_policy, flags,
             le_tx_path_loss_comp_>>

\* Bounds of the power manager model
NumRand == 2              \* distinct random numbers the controller returns
MaxKeyCalls == 3          \* calls of GetEncKeyMaterial
NumPeers == 2             \* peer devices with an ACL link
MaxStatus == 3            \* connection status changes the profiles report
MaxModeChanges == 2       \* mode change events of the controller
MaxTasks == 3             \* tasks waiting on the main thread
MaxScoStatus == 6         \* status changes where several links carry SCO

\* tBTA_DM_PM_ACTION
BTA_DM_PM_NO_ACTION == 0
BTA_DM_PM_NO_PREF == 1
BTA_DM_PM_SUSPEND == 4
BTA_DM_PM_PARK == 16
BTA_DM_PM_SNIFF == 32
BTA_DM_PM_SNIFF3 == BTA_DM_PM_SNIFF + 3
BTA_DM_PM_ACTIVE == 64
\* timer indices of a slot
BTA_DM_PM_PARK_TIMER_IDX == 0
BTA_DM_PM_SNIFF_TIMER_IDX == 1
BTA_DM_PM_SUSPEND_TIMER_IDX == 2
BTA_DM_PM_MODE_TIMER_MAX == 3
BTA_DM_NUM_PM_TIMER == 7
BTA_DM_NUM_CONN_SRVS == 30
BTA_ALL_APP_ID == 255
\* indices of p_bta_dm_ssr_spec
BTA_DM_PM_SSR0 == 0
BTA_DM_PM_SSR_HH == 1
BTA_DM_PM_SSR2 == BTA_DM_PM_SSR_HH + 1
BTA_DM_PM_SSR4 == 4

Peers == 1..NumPeers
TimerSlots == 0..(BTA_DM_NUM_PM_TIMER - 1)
TimerIdxs == 0..(BTA_DM_PM_MODE_TIMER_MAX - 1)

\* A slot of the bank after bta_dm_init_pm; peer 0 is the empty address
PmTimer0 ==
  [in_use |-> FALSE, peer_bdaddr |-> 0, active |-> 0,
   srvc_id |-> [j \in TimerIdxs |-> "BTA_ID_MAX"],
   pm_action |-> [j \in TimerIdxs |-> BTA_DM_PM_NO_ACTION]]

Alarm0 == [armed |-> FALSE, ms |-> 0]

\* A peer record of the device list, as an ACL link that came up leaves it
PeerDevice0 ==
  [info |-> {}, pm_mode_attempted |-> 0, pm_mode_failed |-> 0, prev_low |-> "ACTIVE"]

PmEv == [op |-> "", peer |-> 0, id |-> "", status |-> "", hci |-> 0, task |-> <<>>, log |-> <<>>]

PmGhost0 ==
  [calls |-> 0, events |-> 0, open |-> {}, sco |-> {},
   second |-> [q \in Peers |-> [on |-> FALSE, sniffs |-> 0]],
   failed |-> [q \in Peers |-> 0], disabled |-> FALSE]

\* The power manager after bta_dm_init_pm, with every peer connected and no
\* service reported yet
bta_dm_init_pm ==
  /\ bta_dm_conn_srvcs = <<>>
  /\ pm_timer = [i \in TimerSlots |-> PmTimer0]
  /\ pm_alarm = [i \in TimerSlots |-> [j \in TimerIdxs |-> Alarm0]]
  /\ device_list = [p \in Peers |-> PeerDevice0]
  /\ main_thread = <<>>
  /\ link = [p \in Peers |-> [mode |-> "ACTIVE", pending |-> <<>>, ssr |-> TRUE]]
  /\ pmghost = PmGhost0
  /\ pmev = [PmEv EXCEPT !.op = "init"]

\* The key material before GetEncKeyMaterial was called: nothing stored,
\* empty buffers
KeyEv == [op |-> "", iteration |-> 0, log |-> <<>>]

KeyMaterial0 ==
  /\ enc_data = <<>>
  /\ key_iv = [key |-> <<>>, iv |-> <<>>]
  /\ rand_queue = <<>>
  /\ keyghost = [calls |-> 0, runs |-> 0]
  /\ keyev = [KeyEv EXCEPT !.op = "init"]

\* A value-initialized Advertiser, as std::map::operator[] creates it
Advertiser0 ==
  [in_use |-> FALSE, started |-> FALSE, address_type |-> "PUBLIC",
   current_address |-> EmptyAddress,
   status_callback |-> FALSE, timeout_callback |-> FALSE,
   tx_power |-> 0, duration |-> 0, max_extended_advertising_events |-> 0,
   is_legacy |-> FALSE, connectable |-> FALSE, discoverable |-> FALSE,
   directed |-> FALSE, is_periodic |-> FALSE,
   address_rotation_alarm |-> FALSE,
   advertisement |-> <<>>, scan_response |-> <<>>, periodic_data |-> <<>>,
   advertisement_enc |-> <<>>, scan_response_enc |-> <<>>,
   periodic_data_enc |-> <<>>]

EnabledSet(h, d, m) ==
  [advertising_handle_ |-> h, duration_ |-> d,
   max_extended_advertising_events_ |-> m]

\* One entry of what a step does: a command enqueued (k = "cmd"), a callback
\* delivered (k = "cb") or a call into the address manager (k = "am").
Ent ==
  [k |-> "", op |-> "", id |-> 0, en |-> FALSE, es |-> <<>>, frag |-> "",
   pay |-> <<>>, addr |-> EmptyAddress, st |-> "", reg |-> 0]

\* The completion bound to a command: the handler, and its bound arguments.
\* frag is the operation of the command it completes.
Closure ==
  [k |-> "check_complete", id |-> 0, send_callback |-> FALSE, opc |-> "",
   enable |-> FALSE, es |-> <<>>, trigger |-> FALSE, addr |-> EmptyAddress,
   frag |-> ""]

\* The manager's mutable state as one value, and the entries of the step
Pack ==
  [sets |-> advertising_sets_, en |-> enabled_sets_, idm |-> id_map_,
   reg |-> address_manager_registered, paused |-> paused, hci |-> hci,
   posts |-> posts, log |-> <<>>]

Has(s, id) == id \in DOMAIN s.sets

\* advertising_sets_[id]: creates the record when there is none
Touch(s, id) ==
  IF Has(s, id) THEN s ELSE [s EXCEPT !.sets = (id :> Advertiser0) @@ @]

Erase(s, id) ==
  [s EXCEPT !.sets = [i \in (DOMAIN @) \ {id} |-> @[i]]]

\* le_advertising_interface_->EnqueueCommand(cmd, closure); a check_complete
\* closure does nothing when it runs and is not kept
EnqueueCommand(s, cmd, closure) ==
  [s EXCEPT !.log = Append(@, cmd),
            !.hci = IF closure.k = "check_complete" THEN @
                    ELSE Append(@, closure)]

\* advertising_callbacks_->...: the shim's OnAdvertisingSetStarted posts
\* ResetAdvertiser(advertiser_id) when the status is not SUCCESS;
\* reset_advertiser(kInvalidId) finds no record and is left out
Callback(s, cb) ==
  [s EXCEPT !.log = Append(@, [cb EXCEPT !.k = "cb"]),
            !.posts = IF /\ cb.op = "OnAdvertisingSetStarted"
                         /\ cb.st # "SUCCESS"
                         /\ cb.id # kInvalidId
                      THEN @ \cup {cb.id} ELSE @]

AmCall(s, name) == [s EXCEPT !.log = Append(@, [Ent EXCEPT !.k = "am", !.op = name])]

EnableOp ==
  CASE advertising_api_type_ = "LEGACY" -> "LE_SET_ADVERTISING_ENABLE"
    [] advertising_api_type_ = "ANDROID_HCI" -> "LE_MULTI_ADVT_SET_ENABLE"
    [] advertising_api_type_ = "EXTENDED" -> "LE_SET_EXTENDED_ADVERTISING_ENABLE"

\* The enable command of the API type for the enabled sets es; the legacy
\* command names no set, the vendor command names one instance
EnableCmd(enable, id, es) ==
  [Ent EXCEPT !.k = "cmd", !.op = EnableOp, !.en = enable,
              !.id = IF advertising_api_type_ = "LEGACY" THEN kInvalidHandle
                     ELSE id,
              !.es = IF advertising_api_type_ = "EXTENDED" THEN es ELSE <<>>]

EnableClosure(enable, es, trigger) ==
  [Closure EXCEPT !.k = IF advertising_api_type_ = "EXTENDED"
                        THEN "on_set_extended_advertising_enable_complete"
                        ELSE "on_set_advertising_enable_complete",
                  !.enable = enable, !.es = es, !.trigger = trigger]

CancelAlarm(s, id) == [s EXCEPT !.sets[id].address_rotation_alarm = FALSE]

\* The tail shared by reset_advertiser and remove_advertiser
\* An unregistration that forgets to clear paused
UnregisterLeavesPaused(s) ==
  IF DOMAIN s.sets = {} /\ s.reg
  THEN [AmCall(s, "Unregister") EXCEPT !.reg = FALSE]
  ELSE s

UnregisterIfEmpty(s) ==
  IF DOMAIN s.sets = {} /\ s.reg
  THEN [AmCall(s, "Unregister") EXCEPT !.reg = FALSE, !.paused = FALSE]
  ELSE s

RECURSIVE FirstFree(_, _)
FirstFree(s, id) ==
  IF id < num_instances_ /\ Has(s, id) THEN FirstFree(s, id + 1) ELSE id

AllocateFrom(s, first) ==
  LET id == FirstFree(s, first)
  IN IF id = num_instances_ THEN [s |-> s, id |-> kInvalidId]
     ELSE [s |-> [Touch(s, id) EXCEPT !.sets[id].in_use = TRUE], id |-> id]

AllocateFromZero(s) == AllocateFrom(s, 0)

allocate_advertiser(s) ==
  AllocateFrom(s, IF advertising_api_type_ = "ANDROID_HCI" THEN 1 ELSE 0)

\* A reset that leaves the record where it is
ResetKeepsRecord(s, id) == s

reset_advertiser(s, id) ==
  IF ~Has(s, id) THEN s
  ELSE LET s1 == IF advertising_api_type_ = "EXTENDED"
                 THEN CancelAlarm(
                        [s EXCEPT !.en[id].advertising_handle_ = kInvalidHandle],
                        id)
                 ELSE s
       IN UnregisterIfEmpty(Erase(s1, id))

stop_advertising(s, id) ==
  IF ~Has(s, id) THEN s
  ELSE LET s1 == EnqueueCommand(
                   s, EnableCmd(FALSE, id, <<EnabledSet(id, 0, 0)>>), Closure)
           s2 == IF /\ advertising_api_type_ = "EXTENDED"
                    /\ s.sets[id].is_periodic
                 THEN EnqueueCommand(
                        s1,
                        [Ent EXCEPT !.k = "cmd",
                                    !.op = "LE_SET_PERIODIC_ADVERTISING_ENABLE",
                                    !.id = id, !.en = FALSE],
                        Closure)
                 ELSE s1
       IN [s2 EXCEPT !.en[id].advertising_handle_ = kInvalidHandle]

RemoveAdvertisingSet(s, id) ==
  IF advertising_api_type_ = "EXTENDED"
  THEN CancelAlarm(
         EnqueueCommand(
           s, [Ent EXCEPT !.k = "cmd", !.op = "LE_REMOVE_ADVERTISING_SET",
                          !.id = id],
           Closure),
         id)
  ELSE s

RemoveStopped(s, id) ==
  IF ~Has(s, id) THEN s
  ELSE UnregisterIfEmpty(Erase(RemoveAdvertisingSet(s, id), id))

remove_advertiser(s, id) == RemoveStopped(stop_advertising(s, id), id)

enable_advertiser(s, id, enable, duration, max_extended_advertising_events) ==
  IF ~Has(s, id) THEN s
  ELSE LET es == <<EnabledSet(id, duration, max_extended_advertising_events)>>
           s1 == EnqueueCommand(s, EnableCmd(enable, id, es),
                                EnableClosure(enable, es, TRUE))
       IN IF enable
          THEN [s1 EXCEPT
                  !.en[id] =
                    IF advertising_api_type_ = "EXTENDED"
                    THEN EnabledSet(id, duration, max_extended_advertising_events)
                    ELSE [@ EXCEPT !.advertising_handle_ = id],
                  !.sets[id].duration = duration,
                  !.sets[id].max_extended_advertising_events =
                    max_extended_advertising_events]
          ELSE CancelAlarm(
                 [s1 EXCEPT !.en[id].advertising_handle_ = kInvalidHandle], id)

\* na is the value the address manager mints when a new address is made
new_advertiser_address(s, id, na) ==
  CASE s.sets[id].address_type = "PUBLIC" ->
         IF address_policy = "USE_STATIC_ADDRESS"
         THEN GetInitiatorAddress(address_policy) ELSE MacAddress
    [] s.sets[id].address_type = "RESOLVABLE_RANDOM" ->
         IF advertising_api_type_ = "LEGACY"
         THEN GetInitiatorAddress(address_policy)
         ELSE Addr("RANDOM_DEVICE_ADDRESS", "NewResolvableAddress", na)
    [] s.sets[id].address_type = "NONRESOLVABLE_RANDOM" ->
         Addr("RANDOM_DEVICE_ADDRESS", "NewNonResolvableAddress", na)

RegisterCallback(a) ==
  Callback(a.s, [Ent EXCEPT !.op = "register_callback", !.id = a.id,
                            !.st = IF a.id = kInvalidId
                                   THEN "TOO_MANY_ADVERTISERS" ELSE "SUCCESS"])

register_advertiser(s) == RegisterCallback(allocate_advertiser(s))

get_tx_power_after_calibration(tx_power, comp) ==
  IF comp = 0 THEN tx_power
  ELSE LET number == tx_power + comp
       IN IF number < kLeAdvertisingTxPowerMin \/ number > kLeAdvertisingTxPowerMax
          THEN tx_power ELSE number

ParametersOp ==
  CASE advertising_api_type_ = "LEGACY" -> "LE_SET_ADVERTISING_PARAMETERS"
    [] advertising_api_type_ = "ANDROID_HCI" -> "LE_MULTI_ADVT_SET_PARAM"
    [] advertising_api_type_ = "EXTENDED" -> "LE_SET_EXTENDED_ADVERTISING_PARAMETERS"

StatusClosure(send_callback, id, opc, frag) ==
  [Closure EXCEPT !.k = "check_status_with_id", !.send_callback = send_callback,
                  !.id = id, !.opc = opc, !.frag = frag]

set_parameters(s, id, config) ==
  LET s0 == Touch(s, id)
      s1 == [s0 EXCEPT
               !.sets[id].is_legacy = config.legacy_pdus,
               !.sets[id].connectable = config.connectable,
               !.sets[id].discoverable = config.discoverable,
               !.sets[id].tx_power =
                 get_tx_power_after_calibration(config.tx_power,
                                                le_tx_path_loss_comp_),
               !.sets[id].directed = config.directed,
               !.sets[id].is_periodic = config.periodic_enable]
      cmd == [Ent EXCEPT !.k = "cmd", !.op = ParametersOp, !.id = id,
                         !.addr = s1.sets[id].current_address]
  IN EnqueueCommand(
       s1, cmd,
       IF advertising_api_type_ = "EXTENDED"
       THEN [Closure EXCEPT
               !.k = "on_set_extended_advertising_parameters_complete",
               !.id = id]
       ELSE StatusClosure(TRUE, id, ParametersOp, ""))

DataOp(set_scan_rsp) ==
  CASE advertising_api_type_ = "LEGACY" ->
         IF set_scan_rsp THEN "LE_SET_SCAN_RESPONSE_DATA"
         ELSE "LE_SET_ADVERTISING_DATA"
    [] advertising_api_type_ = "ANDROID_HCI" ->
         IF set_scan_rsp THEN "LE_MULTI_ADVT_SET_SCAN_RESP"
         ELSE "LE_MULTI_ADVT_SET_DATA"
    [] advertising_api_type_ = "EXTENDED" ->
         IF set_scan_rsp THEN "LE_SET_EXTENDED_SCAN_RESPONSE_DATA"
         ELSE "LE_SET_EXTENDED_ADVERTISING_DATA"

IsFinalOperation(operation) ==
  operation \in {"COMPLETE_ADVERTISEMENT", "LAST_FRAGMENT"}

DataCmd(op, id, operation, bytes) ==
  [Ent EXCEPT !.k = "cmd", !.op = op, !.id = id, !.frag = operation,
              !.pay = bytes]

send_data_fragment(s, id, set_scan_rsp, data, operation) ==
  EnqueueCommand(
    s, DataCmd(DataOp(set_scan_rsp), id, operation, SerializeAll(data)),
    IF flags.divide_long_single_gap_data
    THEN StatusClosure(IsFinalOperation(operation), id, DataOp(set_scan_rsp),
                       operation)
    ELSE IF IsFinalOperation(operation)
         THEN StatusClosure(TRUE, id, DataOp(set_scan_rsp), operation)
         ELSE Closure)

send_data_fragment_with_raw_builder(s, id, set_scan_rsp, bytes, operation) ==
  EnqueueCommand(
    s, DataCmd(DataOp(set_scan_rsp), id, operation, bytes),
    StatusClosure(IsFinalOperation(operation), id, DataOp(set_scan_rsp),
                  operation))

\* for (i...) send_data_fragment(..., sub_data, operation) over the fragments
\* that FragmentByElements cut
RECURSIVE SendElementFragments(_, _, _, _)
SendElementFragments(s, id, set_scan_rsp, frs) ==
  IF frs = <<>> THEN s
  ELSE SendElementFragments(
         send_data_fragment(s, id, set_scan_rsp, Head(frs)[1], Head(frs)[2]),
         id, set_scan_rsp, Tail(frs))

\* for (i...) send_data_fragment_with_raw_builder(..., fragments[i], ...)
RECURSIVE SendRawFragments(_, _, _, _, _)
SendRawFragments(s, id, set_scan_rsp, fragments, i) ==
  IF i > Len(fragments) THEN s
  ELSE SendRawFragments(
         send_data_fragment_with_raw_builder(
           s, id, set_scan_rsp, fragments[i],
           IF i = Len(fragments) THEN "LAST_FRAGMENT"
           ELSE IF i = 1 THEN "FIRST_FRAGMENT" ELSE "INTERMEDIATE_FRAGMENT"),
         id, set_scan_rsp, fragments, i + 1)

\* The FLAGS element that set_data puts in front of advertising data
InsertFlags(adv, set_scan_rsp, data) ==
  IF ~set_scan_rsp /\ adv.connectable /\ adv.discoverable /\ ~data_has_flags(data)
  THEN <<GapData("FLAGS", 1,
                 IF adv.duration = 0 THEN LE_GENERAL_DISCOVERABLE
                 ELSE LE_LIMITED_DISCOVERABLE)>> \o data
  ELSE data

\* "Find and fill TX Power with the correct value": the first such element
RECURSIVE FillTxPower(_, _)
FillTxPower(data, tx_power) ==
  IF data = <<>> THEN <<>>
  ELSE IF Head(data).type = "TX_POWER_LEVEL"
       THEN <<[Head(data) EXCEPT !.val = tx_power]>> \o Tail(data)
       ELSE <<Head(data)>> \o FillTxPower(Tail(data), tx_power)

DataSetCallback(id, set_scan_rsp, status) ==
  [Ent EXCEPT !.op = IF set_scan_rsp THEN "OnScanResponseDataSet"
                     ELSE "OnAdvertisingDataSet",
              !.id = id, !.st = status]

\* The legacy and vendor commands carry the whole data in one command
SendWholeData(s, id, set_scan_rsp, data) ==
  EnqueueCommand(
    s, DataCmd(DataOp(set_scan_rsp), id, "", SerializeAll(data)),
    StatusClosure(TRUE, id, DataOp(set_scan_rsp), ""))

set_data(s, id, set_scan_rsp, data0) ==
  LET s0 == Touch(s, id)
      data == FillTxPower(InsertFlags(s0.sets[id], set_scan_rsp, data0),
                          s0.sets[id].tx_power)
      divide_gap_flag == flags.divide_long_single_gap_data
      data_limit == IF divide_gap_flag THEN kLeMaximumGapDataLength
                    ELSE kLeMaximumFragmentLength
      data_len == DataLen16(data)
      maxDataLength ==
        IF flags.ble_check_data_length_on_legacy_advertising
           /\ s0.sets[id].is_legacy
        THEN kLeMaximumLegacyAdvertisingDataLength
        ELSE le_maximum_advertising_data_length_
  IN IF advertising_api_type_ # "EXTENDED"
     THEN IF ~check_advertising_data(data, FALSE,
                                     le_maximum_advertising_data_length_)
          THEN Callback(s0, DataSetCallback(id, set_scan_rsp, "DATA_TOO_LARGE"))
          ELSE SendWholeData(s0, id, set_scan_rsp, data)
     ELSE IF \E i \in 1..Len(data) : GapSize(data[i]) > data_limit
          THEN Callback(s0, DataSetCallback(id, set_scan_rsp, "INTERNAL_ERROR"))
          ELSE IF data_len > maxDataLength
          THEN Callback(s0, DataSetCallback(id, set_scan_rsp, "DATA_TOO_LARGE"))
          ELSE IF data_len <= kLeMaximumFragmentLength
          THEN send_data_fragment(s0, id, set_scan_rsp, data,
                                  "COMPLETE_ADVERTISEMENT")
          ELSE IF divide_gap_flag
          THEN SendRawFragments(
                 s0, id, set_scan_rsp,
                 FragmentingInserter(kLeMaximumFragmentLength,
                                     SerializeAll(data)), 1)
          ELSE SendElementFragments(
                 s0, id, set_scan_rsp,
                 FragmentByElements(data, <<>>, "FIRST_FRAGMENT",
                                    kLeMaximumFragmentLength))

\* The DISABLED / ENABLED commands that set_enc_data and
\* encrypted_advertising_complete put around chained data of a started set
ChainedEnable(s, id, enable) ==
  EnqueueCommand(
    s,
    EnableCmd(enable, id,
              <<EnabledSet(id, s.sets[id].duration,
                           s.sets[id].max_extended_advertising_events)>>),
    Closure)

ChainedEnableIf(s, id, around, enable) ==
  IF around THEN ChainedEnable(s, id, enable) ELSE s

\* The end of encrypted_advertising_complete: a set that has not started is
\* enabled, or recorded for OnResume while paused
EnableOrRecord(s, id) ==
  IF ~s.sets[id].started
  THEN IF ~s.paused
       THEN enable_advertiser(s, id, TRUE, s.sets[id].duration,
                              s.sets[id].max_extended_advertising_events)
       ELSE [s EXCEPT !.en[id] =
               EnabledSet(id, s.sets[id].duration,
                          s.sets[id].max_extended_advertising_events)]
  ELSE s

\* data is the plain data followed by the sealed element
SendSealed(s, id, set_scan_rsp, data) ==
  IF advertising_api_type_ # "EXTENDED"
  THEN SendWholeData(s, id, set_scan_rsp, data)
  ELSE IF DataLen16(data) <= kLeMaximumFragmentLength
  THEN send_data_fragment(s, id, set_scan_rsp, data, "COMPLETE_ADVERTISEMENT")
  ELSE ChainedEnableIf(
         SendElementFragments(
           ChainedEnableIf(
             s, id,
             /\ check_chained_data(
                  data, s.sets[id].connectable /\ s.sets[id].discoverable)
             /\ s.sets[id].started,
             FALSE),
           id, set_scan_rsp,
           FragmentByElements(data, <<>>, "FIRST_FRAGMENT",
                              kLeMaximumFragmentLength)),
         id,
         /\ check_chained_data(
              data, s.sets[id].connectable /\ s.sets[id].discoverable)
         /\ s.sets[id].started,
         TRUE)

SealedDataError(data) ==
  IF advertising_api_type_ # "EXTENDED"
  THEN IF ~check_advertising_data(data, FALSE,
                                  le_maximum_advertising_data_length_)
       THEN "DATA_TOO_LARGE" ELSE "SUCCESS"
  ELSE IF \E i \in 1..Len(data) : GapSize(data[i]) > kLeMaximumGapDataLength
  THEN "INTERNAL_ERROR"
  ELSE IF DataLen16(data) > le_maximum_advertising_data_length_
  THEN "DATA_TOO_LARGE" ELSE "SUCCESS"

SendSealedChecked(s, id, set_scan_rsp, data) ==
  IF SealedDataError(data) # "SUCCESS"
  THEN Callback(s, DataSetCallback(id, set_scan_rsp, SealedDataError(data)))
  ELSE EnableOrRecord(SendSealed(s, id, set_scan_rsp, data), id)

encrypted_advertising_complete(s, id, set_scan_rsp, data0, data_encrypt) ==
  SendSealedChecked(s, id, set_scan_rsp,
                    Append(data0, EncryptedAdvertising(data_encrypt)))

set_enc_data(s, id, set_scan_rsp, data0, data_encrypt0) ==
  LET s0 == Touch(s, id)
      s1 == IF ~set_scan_rsp
            THEN [s0 EXCEPT !.sets[id].advertisement = data0,
                            !.sets[id].advertisement_enc = data_encrypt0]
            ELSE [s0 EXCEPT !.sets[id].scan_response = data0,
                            !.sets[id].scan_response_enc = data_encrypt0]
      data == FillTxPower(InsertFlags(s1.sets[id], set_scan_rsp, data0),
                          s1.sets[id].tx_power)
      data_encrypt == FillTxPower(data_encrypt0, s1.sets[id].tx_power)
      data_len == DataLen16(data)
      chained == check_chained_data(
                   data, s1.sets[id].connectable /\ s1.sets[id].discoverable)
      around == chained /\ s1.sets[id].started
  IN IF data_encrypt # <<>>
     THEN encrypted_advertising_complete(s1, id, set_scan_rsp, data, data_encrypt)
     ELSE IF advertising_api_type_ # "EXTENDED"
     THEN IF ~check_advertising_data(data, FALSE,
                                     le_maximum_advertising_data_length_)
          THEN Callback(s1, DataSetCallback(id, set_scan_rsp, "DATA_TOO_LARGE"))
          ELSE SendWholeData(s1, id, set_scan_rsp, data)
     ELSE IF \E i \in 1..Len(data) : GapSize(data[i]) > kLeMaximumGapDataLength
          THEN Callback(s1, DataSetCallback(id, set_scan_rsp, "INTERNAL_ERROR"))
          ELSE IF data_len > le_maximum_advertising_data_length_
          THEN Callback(s1, DataSetCallback(id, set_scan_rsp, "DATA_TOO_LARGE"))
          ELSE IF data_len <= kLeMaximumFragmentLength
          THEN send_data_fragment(s1, id, set_scan_rsp, data,
                                  "COMPLETE_ADVERTISEMENT")
          ELSE ChainedEnableIf(
                 SendRawFragments(
                   ChainedEnableIf(s1, id, around, FALSE), id, set_scan_rsp,
                   FragmentingInserter(kLeMaximumFragmentLength,
                                       SerializeAll(data)), 1),
                 id, around, TRUE)

\* controller_->SupportsBlePeriodicAdvertising(): the controller of the model
\* is one that has the feature
SupportsBlePeriodicAdvertising == TRUE

PeriodicDataOp == "LE_SET_PERIODIC_ADVERTISING_DATA"

set_periodic_parameter(s, id) ==
  EnqueueCommand(
    s, [Ent EXCEPT !.k = "cmd", !.op = "LE_SET_PERIODIC_ADVERTISING_PARAMETERS",
                   !.id = id],
    StatusClosure(TRUE, id, "LE_SET_PERIODIC_ADVERTISING_PARAMETERS", ""))

send_periodic_data_fragment(s, id, data, operation) ==
  EnqueueCommand(
    s, DataCmd(PeriodicDataOp, id, operation, SerializeAll(data)),
    IF flags.divide_long_single_gap_data
    THEN StatusClosure(IsFinalOperation(operation), id, PeriodicDataOp,
                       operation)
    ELSE IF IsFinalOperation(operation)
         THEN StatusClosure(TRUE, id, PeriodicDataOp, operation)
         ELSE Closure)

send_periodic_data_fragment_with_raw_builder(s, id, bytes, operation) ==
  EnqueueCommand(
    s, DataCmd(PeriodicDataOp, id, operation, bytes),
    StatusClosure(IsFinalOperation(operation), id, PeriodicDataOp, operation))

RECURSIVE SendPeriodicElementFragments(_, _, _)
SendPeriodicElementFragments(s, id, frs) ==
  IF frs = <<>> THEN s
  ELSE SendPeriodicElementFragments(
         send_periodic_data_fragment(s, id, Head(frs)[1], Head(frs)[2]),
         id, Tail(frs))

RECURSIVE SendPeriodicRawFragments(_, _, _, _)
SendPeriodicRawFragments(s, id, fragments, i) ==
  IF i > Len(fragments) THEN s
  ELSE SendPeriodicRawFragments(
         send_periodic_data_fragment_with_raw_builder(
           s, id, fragments[i],
           IF i = Len(fragments) THEN "LAST_FRAGMENT"
           ELSE IF i = 1 THEN "FIRST_FRAGMENT" ELSE "INTERMEDIATE_FRAGMENT"),
         id, fragments, i + 1)

enable_periodic_advertising(s, id, enable) ==
  IF ~SupportsBlePeriodicAdvertising THEN s
  ELSE EnqueueCommand(
         s, [Ent EXCEPT !.k = "cmd", !.op = "LE_SET_PERIODIC_ADVERTISING_ENABLE",
                        !.id = id, !.en = enable],
         [Closure EXCEPT !.k = "on_set_periodic_advertising_enable_complete",
                         !.enable = enable, !.id = id])

EnablePeriodicIf(s, id, cond, enable) ==
  IF cond THEN enable_periodic_advertising(s, id, enable) ELSE s

PeriodicDataSetCallback(id, status) ==
  [Ent EXCEPT !.op = "OnPeriodicAdvertisingDataSet", !.id = id, !.st = status]

\* data is the plain periodic data followed by the sealed element
SendSealedPeriodic(s, id, data) ==
  IF DataLen16(data) <= kLeMaximumFragmentLength
  THEN send_periodic_data_fragment(s, id, data, "COMPLETE_ADVERTISEMENT")
  ELSE EnablePeriodicIf(
         SendPeriodicElementFragments(
           EnablePeriodicIf(s, id, s.sets[id].started, FALSE), id,
           FragmentByElements(data, <<>>, "FIRST_FRAGMENT",
                              kLeMaximumFragmentLength)),
         id, s.sets[id].started, TRUE)

SealedPeriodicChecked(s, id, data) ==
  IF \E i \in 1..Len(data) : GapSize(data[i]) > kLeMaximumGapDataLength
  THEN Callback(s, PeriodicDataSetCallback(id, "INTERNAL_ERROR"))
  ELSE IF DataLen16(data) > le_maximum_advertising_data_length_
  THEN Callback(s, PeriodicDataSetCallback(id, "DATA_TOO_LARGE"))
  ELSE EnablePeriodicIf(SendSealedPeriodic(s, id, data), id,
                        ~s.sets[id].started, TRUE)

encrypted_periodic_advertising_complete(s, id, data0, data_encrypt) ==
  SealedPeriodicChecked(s, id,
                        Append(data0, EncryptedAdvertising(data_encrypt)))

SendPlainPeriodic(s, id, data) ==
  IF DataLen16(data) <= (IF flags.divide_long_single_gap_data
                         THEN kLeMaximumPeriodicDataFragmentLength
                         ELSE kLeMaximumFragmentLength)
  THEN send_periodic_data_fragment(s, id, data, "COMPLETE_ADVERTISEMENT")
  ELSE IF flags.divide_long_single_gap_data
  THEN SendPeriodicRawFragments(
         s, id,
         FragmentingInserter(kLeMaximumPeriodicDataFragmentLength,
                             SerializeAll(data)), 1)
  ELSE SendPeriodicElementFragments(
         s, id,
         FragmentByElements(data, <<>>, "FIRST_FRAGMENT",
                            kLeMaximumFragmentLength))

set_periodic_enc_data(s, id, data, data_encrypt) ==
  LET s0 == Touch(s, id)
      s1 == [s0 EXCEPT !.sets[id].periodic_data = data,
                       !.sets[id].periodic_data_enc = data_encrypt]
  IN IF data_encrypt # <<>>
     THEN encrypted_periodic_advertising_complete(s1, id, data, data_encrypt)
     ELSE IF \E i \in 1..Len(data) :
               GapSize(data[i]) > (IF flags.divide_long_single_gap_data
                                   THEN kLeMaximumGapDataLength
                                   ELSE kLeMaximumFragmentLength)
     THEN Callback(s1, PeriodicDataSetCallback(id, "INTERNAL_ERROR"))
     ELSE IF DataLen16(data) > le_maximum_advertising_data_length_
     THEN Callback(s1, PeriodicDataSetCallback(id, "DATA_TOO_LARGE"))
     ELSE SendPlainPeriodic(s1, id, data)

ResendPeriodic(s, id) ==
  set_periodic_enc_data(s, id, s.sets[id].periodic_data,
                        s.sets[id].periodic_data_enc)

ResendPeriodicIf(s, id) ==
  IF s.sets[id].periodic_data_enc # <<>> THEN ResendPeriodic(s, id) ELSE s

ResendScanResponse(s, id) ==
  set_enc_data(s, id, TRUE, s.sets[id].scan_response,
               s.sets[id].scan_response_enc)

ResendAdvertisement(s, id) ==
  set_enc_data(s, id, FALSE, s.sets[id].advertisement,
               s.sets[id].advertisement_enc)

ResendEncrypted(s, id) ==
  IF s.sets[id].advertisement_enc # <<>>
  THEN ResendPeriodicIf(ResendScanResponse(ResendAdvertisement(s, id), id), id)
  ELSE IF s.sets[id].scan_response_enc # <<>>
  THEN ResendScanResponse(s, id)
  ELSE ResendPeriodicIf(s, id)

set_encrypted_advertiser_data(s, id) == ResendEncrypted(Touch(s, id), id)

(***************************************************************************)
(* Creating advertising sets.                                              *)
(***************************************************************************)
RegisterWithAddressManager(s) ==
  IF ~s.reg THEN [AmCall(s, "Register") EXCEPT !.reg = TRUE] ELSE s

SetStartedCallback(reg_id, id, status) ==
  [Ent EXCEPT !.op = "OnAdvertisingSetStarted", !.reg = reg_id, !.id = id,
              !.st = status]

SetAddressType(s, id, config) ==
  [s EXCEPT !.sets[id].address_type =
     IF flags.nrpa_non_connectable_adv /\ ~config.connectable
     THEN GetAdvertiserAddressTypeNonConnectable(
            config.requested_advertiser_address_type, address_policy)
     ELSE GetAdvertiserAddressTypeFromRequestedTypeAndPolicy(
            config.requested_advertiser_address_type, address_policy)]

HasScanResponseType(config) ==
  config.advertising_type \in {"ADV_IND", "ADV_NONCONN_IND"}

SetCurrentAddress(s, id, na) ==
  [s EXCEPT !.sets[id].current_address = new_advertiser_address(s, id, na)]

\* The scan response is written only for these advertising types
SetScanResponse(s, id, config) ==
  IF HasScanResponseType(config)
  THEN set_enc_data(s, id, TRUE, config.scan_response, config.scan_response_enc)
  ELSE s

MultiAdvtSetRandomAddr(s, id) ==
  IF advertising_api_type_ = "ANDROID_HCI" /\ s.sets[id].address_type # "PUBLIC"
  THEN EnqueueCommand(
         s,
         [Ent EXCEPT !.k = "cmd", !.op = "LE_MULTI_ADVT_SET_RANDOM_ADDR",
                     !.id = id, !.addr = s.sets[id].current_address],
         Closure)
  ELSE s

\* The end of create_advertiser_with_id: enable the set, or record its
\* handle while paused
EnableOrRecordHandle(s, id) ==
  IF ~s.paused THEN enable_advertiser(s, id, TRUE, 0, 0)
  ELSE [s EXCEPT !.en[id].advertising_handle_ = id]

\* The end of create_extended_advertiser_with_id
EnableOrRecordSet(s, id, duration, max_ext_adv_events) ==
  IF ~s.paused
  THEN enable_advertiser(s, id, TRUE, duration, max_ext_adv_events)
  ELSE [s EXCEPT !.en[id] = EnabledSet(id, duration, max_ext_adv_events)]

create_advertiser_with_id(s, reg_id, id, config, na) ==
  IF \/ ~check_advertising_data(config.advertisement,
                                config.connectable /\ config.discoverable,
                                le_maximum_advertising_data_length_)
     \/ ~check_advertising_data(config.scan_response, FALSE,
                                le_maximum_advertising_data_length_)
  THEN Callback(s, SetStartedCallback(reg_id, id, "DATA_TOO_LARGE"))
  ELSE EnableOrRecordHandle(
         MultiAdvtSetRandomAddr(
           set_enc_data(
             SetScanResponse(
               set_parameters(
                 SetCurrentAddress(
                   SetAddressType(
                     RegisterWithAddressManager(
                       Touch([s EXCEPT !.idm[id] = reg_id], id)),
                     id, config),
                   id, na),
                 id, config),
               id, config),
             id, FALSE, config.advertisement, config.advertisement_enc),
           id),
         id)

RandomAddressCmd(id, address) ==
  [Ent EXCEPT !.k = "cmd", !.op = "LE_SET_ADVERTISING_SET_RANDOM_ADDRESS",
              !.id = id, !.addr = address]

RandomAddressClosure(id, address) ==
  [Closure EXCEPT !.k = "on_set_advertising_set_random_address_complete",
                  !.id = id, !.addr = address]

SetDurations(s, id, duration, max_ext_adv_events) ==
  [s EXCEPT !.sets[id].duration = duration,
            !.sets[id].max_extended_advertising_events = max_ext_adv_events]

\* The rotation alarm is made for every address type but PUBLIC, unless
\* LE Audio asked for a non-resolvable address
ScheduleRotation(s, client_id, id) ==
  IF /\ s.sets[id].address_type # "PUBLIC"
     /\ ~(/\ client_id = kAdvertiserClientIdLeAudio
          /\ s.sets[id].address_type = "NONRESOLVABLE_RANDOM")
  THEN [s EXCEPT !.sets[id].address_rotation_alarm = TRUE]
  ELSE s

SetRandomAddress(s, client_id, id) ==
  IF s.sets[id].current_address.type # "PUBLIC_DEVICE_ADDRESS"
  THEN ScheduleRotation(
         EnqueueCommand(s, RandomAddressCmd(id, s.sets[id].current_address),
                        RandomAddressClosure(id, s.sets[id].current_address)),
         client_id, id)
  ELSE s

\* With encrypted data the set is enabled where the sealed data is written
EnableUnlessEncrypted(s, id, config, duration, max_ext_adv_events) ==
  IF config.advertisement_enc = <<>> /\ config.scan_response_enc = <<>>
  THEN EnableOrRecordSet(s, id, duration, max_ext_adv_events)
  ELSE s

ExtendedDataFits(config) ==
  /\ check_extended_advertising_data(
       config.advertisement, config.connectable /\ config.discoverable,
       le_maximum_advertising_data_length_, flags.divide_long_single_gap_data)
  /\ check_extended_advertising_data(
       config.advertisement_enc, config.connectable /\ config.discoverable,
       le_maximum_advertising_data_length_, flags.divide_long_single_gap_data)
  /\ check_extended_advertising_data(
       config.scan_response, FALSE,
       le_maximum_advertising_data_length_, flags.divide_long_single_gap_data)
  /\ check_extended_advertising_data(
       config.scan_response_enc, FALSE,
       le_maximum_advertising_data_length_, flags.divide_long_single_gap_data)

\* The periodic part of a set that is created with periodic data
SetPeriodic(s, id, config) ==
  IF config.periodic_data = <<>> /\ config.periodic_data_enc = <<>> THEN s
  ELSE EnablePeriodicIf(
         set_periodic_enc_data(set_periodic_parameter(s, id), id,
                               config.periodic_data, config.periodic_data_enc),
         id, config.periodic_data_enc = <<>>, config.periodic_enable)

create_extended_advertiser_with_id(s, client_id, reg_id, id, config, duration, max_ext_adv_events, na) ==
  IF advertising_api_type_ # "EXTENDED"
  THEN create_advertiser_with_id([s EXCEPT !.idm[id] = reg_id], reg_id, id,
                                 config, na)
  ELSE IF ~ExtendedDataFits(config)
  THEN Callback([s EXCEPT !.idm[id] = reg_id],
                SetStartedCallback(reg_id, id, "DATA_TOO_LARGE"))
  ELSE EnableUnlessEncrypted(
        SetPeriodic(
         set_enc_data(
           SetScanResponse(
             SetRandomAddress(
               set_parameters(
                 SetCurrentAddress(
                   SetAddressType(
                     SetDurations(
                       Touch(RegisterWithAddressManager(
                               [s EXCEPT !.idm[id] = reg_id]), id),
                       id, duration, max_ext_adv_events),
                     id, config),
                   id, na),
                 id, config),
               client_id, id),
             id, config),
           id, FALSE, config.advertisement, config.advertisement_enc),
         id, config),
         id, config, duration, max_ext_adv_events)

start_advertising_fail(s, reg_id, status) ==
  Callback(s, SetStartedCallback(reg_id, kInvalidId, status))

\* a is what allocate_advertiser returned
CreateWithId(a, reg_id, config, na) ==
  IF a.id = kInvalidId
  THEN start_advertising_fail(a.s, reg_id, "TOO_MANY_ADVERTISERS")
  ELSE create_advertiser_with_id(a.s, reg_id, a.id, config, na)

create_advertiser(s, reg_id, config, na) ==
  CreateWithId(allocate_advertiser(s), reg_id, config, na)

CreateExtendedWithId(a, client_id, reg_id, config, duration, max_ext_adv_events, na) ==
  IF a.id = kInvalidId
  THEN start_advertising_fail(a.s, reg_id, "TOO_MANY_ADVERTISERS")
  ELSE create_extended_advertiser_with_id(
         a.s, client_id, reg_id, a.id, config, duration, max_ext_adv_events, na)

create_extended_advertiser(s, client_id, reg_id, config, duration, max_ext_adv_events, na) ==
  CreateExtendedWithId(allocate_advertiser(s), client_id, reg_id, config,
                       duration, max_ext_adv_events, na)

\* status_callback and timeout_callback are the caller's, and not null
SetLocalCallbacks(s, id) ==
  [s EXCEPT !.sets[id].status_callback = TRUE,
            !.sets[id].timeout_callback = TRUE]

start_advertising(s, id, config, duration, na) ==
  create_extended_advertiser_with_id(
    SetLocalCallbacks(Touch(s, id), id), kAdvertiserClientIdJni, kIdLocal, id,
    config, duration, 0, na)

\* A create call that is posted to the handler without a look at the
\* configuration
CreateUnchecked(s, client_id, reg_id, config, duration, max_extended_advertising_events, na) ==
  IF advertising_api_type_ # "EXTENDED"
  THEN create_advertiser(s, reg_id, config, na)
  ELSE create_extended_advertiser(s, client_id, reg_id, config, duration,
                                  max_extended_advertising_events, na)

\* LeAdvertisingManager::ExtendedCreateAdvertiser: the checks made before
\* the call is posted to the handler
ExtendedCreateAdvertiser(s, client_id, reg_id, config, duration, max_extended_advertising_events, na) ==
  IF advertising_api_type_ # "EXTENDED"
  THEN IF /\ config.peer_address_empty
          /\ config.advertising_type \in {"ADV_DIRECT_IND_HIGH",
                                          "ADV_DIRECT_IND_LOW"}
       THEN start_advertising_fail(s, reg_id, "INTERNAL_ERROR")
       ELSE create_advertiser(s, reg_id, config, na)
  ELSE IF \/ (config.directed /\ config.peer_address_empty)
          \/ config.channel_map = 0
          \/ (~config.legacy_pdus /\ config.connectable /\ config.scannable)
          \/ (~config.legacy_pdus /\ config.high_duty_directed_connectable)
          \/ config.interval_min > config.interval_max
       THEN start_advertising_fail(s, reg_id, "INTERNAL_ERROR")
       ELSE create_extended_advertiser(
              s, client_id, reg_id, config, duration,
              max_extended_advertising_events, na)

(***************************************************************************)
(* Address rotation.                                                       *)
(***************************************************************************)
RotateWith(s, id, address) ==
  IF advertising_api_type_ = "EXTENDED"
  THEN EnqueueCommand(s, RandomAddressCmd(id, address),
                      RandomAddressClosure(id, address))
  ELSE s

rotate_advertiser_address(s, id, na) ==
  RotateWith(s, id, new_advertiser_address(s, id, na))

TimerEnabledSets(s, id) ==
  <<EnabledSet(id, s.sets[id].duration,
               s.sets[id].max_extended_advertising_events)>>

KeepEnabledForRotation(s, id) == s

\* A connectable set is disabled while its address changes
DisableForRotation(s, id) ==
  IF s.sets[id].connectable
  THEN EnqueueCommand(s, EnableCmd(FALSE, id, TimerEnabledSets(s, id)), Closure)
  ELSE s

\* and enabled again unless the manager is paused
EnableAfterRotation(s, id) ==
  IF s.sets[id].connectable /\ ~s.paused
  THEN EnqueueCommand(s, EnableCmd(TRUE, id, TimerEnabledSets(s, id)), Closure)
  ELSE s

ScheduleAgain(s, id) == [s EXCEPT !.sets[id].address_rotation_alarm = TRUE]

set_advertising_set_random_address_on_timer(s, id, na) ==
  IF s.en[id].advertising_handle_ = kInvalidHandle
  THEN CancelAlarm(Touch(s, id), id)
  ELSE ScheduleAgain(
         EnableAfterRotation(
           set_encrypted_advertiser_data(
             rotate_advertiser_address(
               DisableForRotation(Touch(s, id), id), id, na),
             id),
           id),
         id)

(***************************************************************************)
(* Events of the controller.                                               *)
(***************************************************************************)
AclOnAdvertisingSetTerminated(s, id, status) ==
  [s EXCEPT !.log = Append(@, [Ent EXCEPT !.k = "acl",
                                          !.op = "OnAdvertisingSetTerminated",
                                          !.id = id, !.st = status,
                                          !.addr = s.sets[id].current_address])]

IsLimitReached(status) == status = "LIMIT_REACHED"

IsTimeout(status) == status \in {"LIMIT_REACHED", "ADVERTISING_TIMEOUT"}

ReenableUnlessDirected(adv) == ~adv.directed

ReenableAfterTermination(adv) ==
  /\ ~adv.directed
  /\ adv.duration = 0
  /\ adv.max_extended_advertising_events = 0

handle_set_terminated(s, id, status) ==
  IF status = "OPERATION_CANCELLED_BY_HOST" THEN s
  ELSE
    LET s0 == Touch(s, id)
        was_rotating_address == s0.sets[id].address_rotation_alarm
        s1 == [CancelAlarm(s0, id) EXCEPT
                 !.en[id].advertising_handle_ = kInvalidHandle]
        s2 == AclOnAdvertisingSetTerminated(s1, id, status)
    IN IF IsTimeout(status)
       THEN IF s2.idm[id] = kIdLocal
            THEN IF s2.sets[id].timeout_callback
                 THEN [Callback(s2, [Ent EXCEPT !.op = "timeout_callback",
                                                !.id = id, !.st = status])
                         EXCEPT !.sets[id].timeout_callback = FALSE]
                 ELSE s2
            ELSE Callback(s2, [Ent EXCEPT !.op = "OnAdvertisingEnabled",
                                          !.id = id, !.en = FALSE,
                                          !.st = status])
       ELSE IF ReenableAfterTermination(s2.sets[id])
            THEN enable_advertiser(
                   [s2 EXCEPT !.sets[id].address_rotation_alarm =
                                was_rotating_address],
                   id, TRUE, 0, 0)
            ELSE s2

multi_advertising_state_change(s, id, reason) ==
  LET s0 == Touch(s, id)
  IN IF reason = "CONNECTION_RECEIVED"
     THEN LET s1 == [AclOnAdvertisingSetTerminated(s0, id, "SUCCESS") EXCEPT
                       !.en[id].advertising_handle_ = kInvalidHandle]
          IN IF ~s1.sets[id].directed
             THEN enable_advertiser(s1, id, TRUE, 0, 0)
             ELSE s1
     ELSE s0

(***************************************************************************)
(* Pause and resume, called by the address manager.                        *)
(***************************************************************************)
\* The loop over enabled_sets_ that collects the entries with a valid handle
EnabledList(s) ==
  SelectSeq([i \in 1..num_instances_ |-> s.en[i - 1]],
            LAMBDA e : e.advertising_handle_ # kInvalidHandle)

\* One vendor command for every enabled instance
RECURSIVE MultiAdvtSetEnable(_, _, _, _)
MultiAdvtSetEnable(s, enable, es, closure) ==
  IF es = <<>> THEN s
  ELSE MultiAdvtSetEnable(
         EnqueueCommand(s, EnableCmd(enable, Head(es).advertising_handle_, <<>>),
                        closure),
         enable, Tail(es), closure)

PauseResumeCommands(s, enable, closure) ==
  LET enabled_sets == EnabledList(s)
  IN IF DOMAIN s.sets = {} THEN s
     ELSE CASE advertising_api_type_ = "LEGACY" ->
                 EnqueueCommand(s, EnableCmd(enable, kInvalidHandle, <<>>), closure)
            [] advertising_api_type_ = "ANDROID_HCI" ->
                 MultiAdvtSetEnable(s, enable, enabled_sets, closure)
            [] advertising_api_type_ = "EXTENDED" ->
                 IF Len(enabled_sets) # 0
                 THEN EnqueueCommand(s, EnableCmd(enable, kInvalidHandle,
                                                  enabled_sets), closure)
                 ELSE s

OnPause(s) ==
  IF ~s.reg THEN s
  ELSE AmCall(PauseResumeCommands([s EXCEPT !.paused = TRUE], FALSE, Closure),
              "AckPause")

OnResume(s) ==
  IF ~s.reg THEN s
  ELSE LET s1 == [s EXCEPT !.paused = FALSE]
       IN AmCall(PauseResumeCommands(
                   s1, TRUE, EnableClosure(TRUE, EnabledList(s1), FALSE)),
                 "AckResume")

\* rotate_advertiser_address(i) as NotifyOnIRKChange calls it: under the
\* extended API advertising_sets_[i] makes the record it does not find
RotateOnIRKChange(s, i, na) ==
  IF advertising_api_type_ = "EXTENDED"
  THEN rotate_advertiser_address(Touch(s, i), i, na)
  ELSE s

\* for (i = 0; i < enabled_sets_.size(); i++); nas[i] is the value the
\* address manager mints for set i
RECURSIVE IRKChangeLoop(_, _, _)
IRKChangeLoop(s, i, nas) ==
  IF i >= num_instances_ THEN s
  ELSE IRKChangeLoop(
         IF s.en[i].advertising_handle_ # kInvalidHandle
         THEN RotateOnIRKChange(s, i, nas[i]) ELSE s,
         i + 1, nas)

NotifyOnIRKChange(s, nas) == IRKChangeLoop(s, 0, nas)

(***************************************************************************)
(* Command completions.                                                    *)
(***************************************************************************)
\* The body of the loop of on_set_[extended_]advertising_enable_complete
EnableCompleteOne(s, enabled_set, enable, trigger_callbacks, advertising_status) ==
  LET id == enabled_set.advertising_handle_
      s0 == Touch(s, id)
      started == s0.sets[id].started
      reg_id == s0.idm[id]
  IN IF id = kInvalidHandle THEN s0
     ELSE IF reg_id = kIdLocal
     THEN IF s0.sets[id].status_callback
          THEN [Callback(s0, [Ent EXCEPT !.op = "status_callback", !.id = id,
                                         !.st = advertising_status])
                  EXCEPT !.sets[id].status_callback = FALSE]
          ELSE s0
     ELSE IF started
     THEN IF trigger_callbacks
          THEN Callback(s0, [Ent EXCEPT !.op = "OnAdvertisingEnabled",
                                        !.id = id, !.en = enable,
                                        !.st = advertising_status])
          ELSE s0
     ELSE Callback([s0 EXCEPT !.sets[id].started = TRUE],
                   SetStartedCallback(reg_id, id, advertising_status))

RECURSIVE EnableCompleteLoop(_, _, _, _, _)
EnableCompleteLoop(s, es, enable, trigger_callbacks, advertising_status) ==
  IF es = <<>> THEN s
  ELSE EnableCompleteLoop(
         EnableCompleteOne(s, Head(es), enable, trigger_callbacks,
                           advertising_status),
         Tail(es), enable, trigger_callbacks, advertising_status)

\* The legacy and vendor handler reports SUCCESS whatever the controller said
LegacyEnableStatus(ok) == "SUCCESS"

on_set_advertising_enable_complete(s, c, ok) ==
  EnableCompleteLoop(s, c.es, c.enable, c.trigger, LegacyEnableStatus(ok))

ExtendedEnableStatus(ok) == IF ok THEN "SUCCESS" ELSE "INTERNAL_ERROR"

on_set_extended_advertising_enable_complete(s, c, ok) ==
  EnableCompleteLoop(s, c.es, c.enable, c.trigger, ExtendedEnableStatus(ok))

on_set_extended_advertising_parameters_complete(s, c, ok, selected_tx_power) ==
  LET id == c.id
      s0 == [Touch(s, id) EXCEPT !.sets[id].tx_power = selected_tx_power]
  IN IF s0.sets[id].started /\ s0.idm[id] # kIdLocal
     THEN Callback(s0, [Ent EXCEPT !.op = "OnAdvertisingParametersUpdated",
                                   !.id = id,
                                   !.st = IF ok THEN "SUCCESS"
                                          ELSE "INTERNAL_ERROR"])
     ELSE s0

on_set_advertising_set_random_address_complete(s, c, ok) ==
  IF ok THEN [Touch(s, c.id) EXCEPT !.sets[c.id].current_address = c.addr]
  ELSE s

\* The callback that check_status_with_id picks from the opcode completed
StatusCallbackOf(opc) ==
  CASE opc \in {"LE_SET_ADVERTISING_PARAMETERS", "LE_MULTI_ADVT_SET_PARAM"} ->
         "OnAdvertisingParametersUpdated"
    [] opc \in {"LE_SET_ADVERTISING_DATA", "LE_SET_EXTENDED_ADVERTISING_DATA",
                "LE_MULTI_ADVT_SET_DATA"} -> "OnAdvertisingDataSet"
    [] opc \in {"LE_SET_SCAN_RESPONSE_DATA",
                "LE_SET_EXTENDED_SCAN_RESPONSE_DATA",
                "LE_MULTI_ADVT_SET_SCAN_RESP"} -> "OnScanResponseDataSet"
    [] opc = "LE_SET_PERIODIC_ADVERTISING_PARAMETERS" ->
         "OnPeriodicAdvertisingParametersUpdated"
    [] opc = "LE_SET_PERIODIC_ADVERTISING_DATA" -> "OnPeriodicAdvertisingDataSet"

\* "Do not trigger callback if send_callback is false"
SuppressedFragment(send_callback) ==
  flags.divide_long_single_gap_data /\ ~send_callback

check_status_with_id(s, c, ok) ==
  LET id == c.id
      s0 == Touch(s, id)
  IN IF ~s0.sets[id].started \/ s0.idm[id] = kIdLocal THEN s0
     ELSE IF SuppressedFragment(c.send_callback) THEN s0
     ELSE Callback(s0, [Ent EXCEPT !.op = StatusCallbackOf(c.opc), !.id = id,
                                   !.st = IF ok THEN "SUCCESS"
                                          ELSE "INTERNAL_ERROR"])

on_set_periodic_advertising_enable_complete(s, c, ok) ==
  LET s0 == Touch(s, c.id)
  IN IF ~s0.sets[c.id].started \/ s0.idm[c.id] = kIdLocal THEN s0
     ELSE Callback(s0, [Ent EXCEPT !.op = "OnPeriodicAdvertisingEnabled",
                                   !.id = c.id, !.en = c.enable,
                                   !.st = IF ok THEN "SUCCESS"
                                          ELSE "INTERNAL_ERROR"])

\* The handler module_handler_ runs for the completion c
RunClosure(s, c, ok, selected_tx_power) ==
  CASE c.k = "on_set_advertising_enable_complete" ->
         on_set_advertising_enable_complete(s, c, ok)
    [] c.k = "on_set_extended_advertising_enable_complete" ->
         on_set_extended_advertising_enable_complete(s, c, ok)
    [] c.k = "on_set_extended_advertising_parameters_complete" ->
         on_set_extended_advertising_parameters_complete(s, c, ok,
                                                         selected_tx_power)
    [] c.k = "on_set_advertising_set_random_address_complete" ->
         on_set_advertising_set_random_address_complete(s, c, ok)
    [] c.k = "on_set_periodic_advertising_enable_complete" ->
         on_set_periodic_advertising_enable_complete(s, c, ok)
    [] c.k = "check_status_with_id" -> check_status_with_id(s, c, ok)

(***************************************************************************)
(* The callers: the clients of the manager, the controller, the address    *)
(* manager and the alarm.                                                  *)
(***************************************************************************)
Name(n) == GapData("COMPLETE_LOCAL_NAME", n, 1)

\* An AdvertisingConfig as the shim fills it for a connectable legacy set
Config0 ==
  [legacy_pdus |-> TRUE, connectable |-> TRUE, scannable |-> TRUE,
   discoverable |-> TRUE, directed |-> FALSE,
   high_duty_directed_connectable |-> FALSE, advertising_type |-> "ADV_IND",
   requested_advertiser_address_type |-> "RESOLVABLE_RANDOM", tx_power |-> 0,
   peer_address_empty |-> TRUE, channel_map |-> 7, interval_min |-> 160,
   interval_max |-> 160, advertisement |-> <<Name(3)>>,
   advertisement_enc |-> <<>>, scan_response |-> <<>>,
   scan_response_enc |-> <<>>, periodic_enable |-> FALSE,
   periodic_data |-> <<>>, periodic_data_enc |-> <<>>]

Directed ==
  [Config0 EXCEPT !.directed = TRUE,
                  !.requested_advertiser_address_type = "PUBLIC", !.scannable = FALSE,
                  !.discoverable = FALSE, !.peer_address_empty = FALSE,
                  !.advertising_type = "ADV_DIRECT_IND_LOW"]

NonConnectable ==
  [Config0 EXCEPT !.connectable = FALSE, !.scannable = FALSE,
                  !.advertising_type = "ADV_NONCONN_IND",
                  !.requested_advertiser_address_type = "NONRESOLVABLE_RANDOM"]

\* The create calls the clients make: a client id, a configuration, a
\* duration and a number of advertising events
CreateCall(client_id, config, duration, max_ext_adv_events) ==
  [client_id |-> client_id, config |-> config, duration |-> duration,
   max_ext_adv_events |-> max_ext_adv_events]

\* A set that cannot be connected to and carries no name
Beacon ==
  [Config0 EXCEPT !.connectable = FALSE, !.scannable = FALSE,
                  !.advertising_type = "ADV_NONCONN_IND"]

\* The tx powers clients ask for, and the path loss compensations the
\* system property holds: the ends of their ranges and values between
TxPowers == <<-128, -127, -20, 0, 10, 20, 21, 127>>
Compensations == {-128, -20, 0, 15, 127}

PowerCalls ==
  [i \in 1..Len(TxPowers) |->
     CreateCall(kAdvertiserClientIdJni,
                [Config0 EXCEPT !.tx_power = TxPowers[i]], 0, 0)]

RequestedTypes == <<"PUBLIC", "RESOLVABLE_RANDOM", "NONRESOLVABLE_RANDOM">>

\* Connectable sets and beacons, one for each address type a client requests
AddressCalls ==
  [i \in 1..6 |->
     CreateCall(kAdvertiserClientIdJni,
                [(IF i <= 3 THEN Config0 ELSE Beacon) EXCEPT
                   !.requested_advertiser_address_type =
                     RequestedTypes[((i - 1) % 3) + 1]],
                0, 0)]

\* Sets with periodic data on extended PDUs: sealed periodic data alone,
\* with a sealed scan response, with sealed advertising data, and plain
\* periodic data
PeriodicSet ==
  [Config0 EXCEPT !.legacy_pdus = FALSE, !.connectable = FALSE,
                  !.scannable = FALSE, !.advertising_type = "ADV_NONCONN_IND",
                  !.periodic_enable = TRUE, !.periodic_data = <<Name(2)>>]

PeriodicCalls ==
  << CreateCall(kAdvertiserClientIdJni,
                [PeriodicSet EXCEPT !.periodic_data_enc = <<Name(2)>>], 0, 0),
     CreateCall(kAdvertiserClientIdJni,
                [PeriodicSet EXCEPT !.periodic_data_enc = <<Name(2)>>,
                                    !.scan_response_enc = <<Name(2)>>], 0, 0),
     CreateCall(kAdvertiserClientIdJni,
                [PeriodicSet EXCEPT !.periodic_data_enc = <<Name(2)>>,
                                    !.advertisement_enc = <<Name(2)>>], 0, 0),
     CreateCall(kAdvertiserClientIdJni, PeriodicSet, 0, 0) >>

CreatePool ==
  << CreateCall(kAdvertiserClientIdJni, Config0, 0, 0),
     CreateCall(kAdvertiserClientIdJni, Config0, MaxDuration, 0),
     CreateCall(kAdvertiserClientIdJni, Directed, 0, 0),
     CreateCall(kAdvertiserClientIdJni,
                [Directed EXCEPT !.peer_address_empty = TRUE], 0, 0),
     CreateCall(kAdvertiserClientIdLeAudio, NonConnectable, 0, MaxExtAdvEvents),
     CreateCall(kAdvertiserClientIdJni,
                [Config0 EXCEPT !.advertisement_enc = <<Name(2)>>], 0, 0),
     CreateCall(kAdvertiserClientIdJni,
                [Config0 EXCEPT !.connectable = FALSE,
                                !.advertising_type = "ADV_SCAN_IND",
                                !.scan_response = <<Name(2)>>,
                                !.scan_response_enc = <<Name(2)>>], 0, 0),
     CreateCall(kAdvertiserClientIdJni,
                [Config0 EXCEPT !.advertisement = <<Name(40)>>], 0, 0),
     CreateCall(kAdvertiserClientIdJni,
                [Config0 EXCEPT !.legacy_pdus = FALSE, !.scannable = FALSE,
                                !.advertising_type = "ADV_NONCONN_IND"], 0, 0),
     CreateCall(kAdvertiserClientIdJni, [Config0 EXCEPT !.channel_map = 0], 0, 0),
     CreateCall(kAdvertiserClientIdJni,
                [Config0 EXCEPT !.legacy_pdus = FALSE], 0, 0),
     CreateCall(kAdvertiserClientIdJni,
                [Directed EXCEPT !.legacy_pdus = FALSE,
                                 !.high_duty_directed_connectable = TRUE,
                                 !.advertising_type = "ADV_DIRECT_IND_HIGH"], 0, 0),
     CreateCall(kAdvertiserClientIdJni,
                [Config0 EXCEPT !.interval_min = 161], 0, 0) >>
    \o AddressCalls \o PowerCalls
    \o << CreateCall(kAdvertiserClientIdJni,
                     [Config0 EXCEPT !.legacy_pdus = FALSE, !.scannable = FALSE,
                                     !.advertisement = <<Name(120), Name(120)>>,
                                     !.advertisement_enc = <<Name(120)>>],
                     0, 0) >>
    \o PeriodicCalls

\* The data the clients write: plain elements and elements to be sealed
Write(data, data_encrypt) == [data |-> data, enc |-> data_encrypt]

WritePool ==
  << Write(<<Name(3)>>, <<>>),
     Write(<<Name(20), Name(20)>>, <<>>),
     Write(<<Name(120), Name(120), Name(120)>>, <<>>),
     Write(<<Name(251)>>, <<>>),
     Write(<<Name(253)>>, <<>>),
     Write(<<Name(250), Name(250), Name(10)>>, <<>>),
     Write(<<Name(3)>>, <<Name(2)>>),
     Write(<<Name(251)>>, <<Name(2)>>),
     Write(<<>>, <<Name(241)>>),
     Write(<<Name(120), Name(120)>>, <<Name(120)>>) >>

\* The EnableAdvertiser calls the clients make: enable, duration, events
EnablePool == {<<FALSE, 0, 0>>, <<TRUE, 0, 0>>, <<TRUE, MaxDuration, MaxExtAdvEvents>>}

\* The reg_id the Java layer passes
RegIds == {7}
Durations == {0, MaxDuration}
Ids == 0..(num_instances_ - 1)
NoId == -1

Ev ==
  [op |-> "", id |-> NoId, en |-> FALSE, st |-> "", dur |-> 0, mx |-> 0,
   cfg |-> 0, na |-> 0, c |-> Closure, ok |-> TRUE, log |-> <<>>,
   ret |-> NoId, scan |-> FALSE, write |-> 0]

InUse(sets) == {id \in DOMAIN sets : sets[id].in_use}

\* What an allocating call returned: the id it put in use, kInvalidId when it
\* reported TOO_MANY_ADVERTISERS, NoId when it did not reach the allocation
Returned(s) ==
  LET new == InUse(s.sets) \ InUse(advertising_sets_)
  IN IF new # {} THEN CHOOSE id \in new : TRUE
     ELSE IF \E i \in 1..Len(s.log) : s.log[i].st = "TOO_MANY_ADVERTISERS"
     THEN kInvalidId ELSE NoId

\* The sets that the enable commands of a step name
EnableTargets(log, enable) ==
  {id \in 0..kInvalidHandle :
     \E i \in 1..Len(log) :
       /\ log[i].k = "cmd" /\ log[i].op = EnableOp /\ log[i].en = enable
       /\ IF advertising_api_type_ = "EXTENDED"
          THEN \E j \in 1..Len(log[i].es) : log[i].es[j].advertising_handle_ = id
          ELSE log[i].id = id}

\* An enable command of the step turns set id on; the legacy command names no
\* set
EnabledIn(log, id) ==
  IF advertising_api_type_ = "LEGACY" THEN EnableTargets(log, TRUE) # {}
  ELSE id \in EnableTargets(log, TRUE)

Reported(log, op) == {i \in 1..Len(log) : log[i].k = "cb" /\ log[i].op = op}

\* No callback of the step carries an error
NoError(log) ==
  \A i \in 1..Len(log) : log[i].k = "cb" => log[i].st = "SUCCESS"

\* The sets the controller is advertising, as the commands sent to it say
RECURSIVE CtlAfter(_, _)
CtlAfter(ctl, log) ==
  IF log = <<>> THEN ctl
  ELSE LET e == Head(log)
           ids == EnableTargets(<<e>>, e.en)
       IN CtlAfter(
            IF e.k = "cmd" /\ e.op = EnableOp
            THEN IF e.en THEN ctl \cup ids ELSE ctl \ ids
            ELSE IF e.k = "cmd" /\ e.op = "LE_REMOVE_ADVERTISING_SET"
            THEN ctl \ {e.id} ELSE ctl,
            Tail(log))

\* The events of the controller and of the alarm
Events == {"SetTerminated", "StateChange", "RotationTimer"}

Ghost0 ==
  [calls |-> 0, events |-> 0, ctl |-> {}, registered |-> {}, local |-> {}, timedOut |-> {},
   twice |-> FALSE, on |-> {}, pending |-> {}, writes |-> 0]

\* e is the call made and s is the manager after it
GhostAfter(e, s) ==
  LET g == ghost
      created == /\ e.op \in {"Create", "StartAdvertising"}
                 /\ e.ret \in Ids /\ NoError(s.log)
      gone == e.op \in {"RemoveAdvertiser", "ShimReset"}
      off == \/ gone
             \/ e.op = "EnableAdvertiser" /\ ~e.en
             \/ /\ e.op \in {"SetTerminated", "StateChange"}
                /\ e.id \notin EnableTargets(s.log, TRUE)
      who == IF e.op = "Create" THEN e.ret ELSE e.id
      turnedOn == \/ created /\ (s.paused \/ EnabledIn(s.log, who))
                  \/ e.op = "EnableAdvertiser" /\ e.en /\ Has(s, e.id)
                  \/ /\ e.op \in {"SetTerminated", "StateChange"}
                     /\ e.id \in EnableTargets(s.log, TRUE)
      ranOut == {s.log[i].id : i \in Reported(s.log, "timeout_callback")}
  IN [calls |-> IF e.op \in Events \cup {"HciComplete"} THEN g.calls
                ELSE g.calls + 1,
      events |-> IF e.op \in Events THEN g.events + 1 ELSE g.events,
      ctl |-> CtlAfter(IF e.op \in {"SetTerminated", "StateChange"}
                       THEN g.ctl \ {e.id} ELSE g.ctl, s.log),
      registered |->
        IF e.op = "Register" /\ e.ret \in Ids THEN g.registered \cup {e.ret}
        ELSE IF gone \/ e.op = "StartAdvertising" THEN g.registered \ {e.id}
        ELSE g.registered,
      local |->
        IF e.op = "StartAdvertising" THEN g.local \cup {e.id}
        ELSE IF gone THEN g.local \ {e.id}
        ELSE g.local,
      timedOut |->
        (IF e.ret \in Ids /\ e.op \in {"Register", "Create"}
         THEN g.timedOut \ {e.ret} ELSE g.timedOut) \cup ranOut,
      twice |-> g.twice \/ (ranOut \cap g.timedOut # {}),
      on |-> IF turnedOn THEN g.on \cup {who}
             ELSE IF off THEN g.on \ {e.id} ELSE g.on,
      pending |->
        IF ~s.paused \/ e.op = "OnPause" THEN {}
        ELSE IF created THEN g.pending \cup {who}
        ELSE IF off THEN g.pending \ {e.id}
        ELSE g.pending,
      writes |-> IF e.op \in {"SetData", "SetEncData"} THEN g.writes + 1
                 ELSE g.writes]

WithReturned(e, s) ==
  IF e.op \in {"Register", "Create"} THEN [e EXCEPT !.ret = Returned(s)] ELSE e

Commit(s, e) ==
  /\ Len(s.hci) <= MaxHci
  /\ e.op \notin Events \cup {"HciComplete"} => ghost.calls < MaxCalls
  /\ e.op \in Events => ghost.events < MaxEvents
  /\ advertising_sets_' = s.sets
  /\ enabled_sets_' = s.en
  /\ id_map_' = s.idm
  /\ address_manager_registered' = s.reg
  /\ paused' = s.paused
  /\ hci' = s.hci
  /\ posts' = s.posts
  /\ ev' = [WithReturned(e, s) EXCEPT !.log = s.log]
  /\ ghost' = GhostAfter(WithReturned(e, s), s)
  /\ UNCHANGED envVars
  /\ UNCHANGED pmVars
  /\ UNCHANGED keyVars

(***************************************************************************)
(* The lifecycle of advertising sets.                                      *)
(***************************************************************************)
FlagValues ==
  [divide_long_single_gap_data : BOOLEAN,
   ble_check_data_length_on_legacy_advertising : BOOLEAN,
   nrpa_non_connectable_adv : BOOLEAN]

\* The manager after start(), with no advertiser yet, on a controller that
\* reports n advertising sets
Started(n) ==
  /\ advertising_api_type_ \in ApiTypes
  /\ num_instances_ = IF advertising_api_type_ = "ANDROID_HCI" THEN n + 1 ELSE n
  /\ advertising_sets_ = [i \in {} |-> Advertiser0]
  /\ enabled_sets_ = [i \in Ids |-> EnabledSet(kInvalidHandle, 0, 0)]
  /\ id_map_ = [i \in Ids |-> 0]
  /\ address_manager_registered = FALSE
  /\ paused = FALSE
  /\ hci = <<>>
  /\ posts = {}
  /\ ghost = Ghost0
  /\ ev = [Ev EXCEPT !.op = "start"]
  /\ bta_dm_init_pm
  /\ KeyMaterial0

Environment ==
  /\ le_maximum_advertising_data_length_ = kLeMaximumLegacyAdvertisingDataLength
  /\ address_policy = "USE_RESOLVABLE_ADDRESS"
  /\ flags \in {f \in FlagValues :
                  /\ f.divide_long_single_gap_data
                  /\ f.ble_check_data_length_on_legacy_advertising
                  /\ f.nrpa_non_connectable_adv}
  /\ le_tx_path_loss_comp_ = 0

Init == Started(MaxAdvInstances) /\ Environment

RegisterAdvertiser ==
  Commit(register_advertiser(Pack), [Ev EXCEPT !.op = "Register"])

\* The local client starts a set on the id it has registered
StartAdvertising ==
  \E id \in ghost.registered, i \in {1}, duration \in Durations,
     na \in 1..NumAddr :
    Commit(start_advertising(Pack, id, CreatePool[i].config, duration, na),
           [Ev EXCEPT !.op = "StartAdvertising", !.id = id, !.cfg = i,
                      !.dur = duration, !.ret = id])

\* The clients create sets with the calls of CreatePool that pool names
CreateAdvertiser(pool) ==
  \E i \in pool, reg_id \in RegIds, na \in 1..NumAddr :
    Commit(ExtendedCreateAdvertiser(
             Pack, CreatePool[i].client_id, reg_id, CreatePool[i].config,
             CreatePool[i].duration, CreatePool[i].max_ext_adv_events, na),
           [Ev EXCEPT !.op = "Create", !.cfg = i, !.dur = CreatePool[i].duration,
                      !.mx = CreatePool[i].max_ext_adv_events])

\* The clients name the sets they hold
EnableAdvertiser(pool) ==
  \E id \in InUse(advertising_sets_), call \in pool :
    Commit(enable_advertiser(Pack, id, call[1], call[2], call[3]),
           [Ev EXCEPT !.op = "EnableAdvertiser", !.id = id, !.en = call[1],
                      !.dur = call[2], !.mx = call[3]])

RemoveAdvertiser ==
  \E id \in InUse(advertising_sets_) :
    Commit(remove_advertiser(Pack, id),
           [Ev EXCEPT !.op = "RemoveAdvertiser", !.id = id])

\* The clients name any id, with or without a set
RemoveAnyAdvertiser ==
  \E id \in Ids :
    Commit(remove_advertiser(Pack, id),
           [Ev EXCEPT !.op = "RemoveAdvertiser", !.id = id])

\* LeAdvertisingManager::SetData without data to seal
SetData ==
  \E id \in InUse(advertising_sets_), i \in 1..Len(WritePool),
     set_scan_rsp \in BOOLEAN :
    /\ WritePool[i].enc = <<>>
    /\ ghost.writes < MaxWrites
    /\ Commit(set_data(Pack, id, set_scan_rsp, WritePool[i].data),
              [Ev EXCEPT !.op = "SetData", !.id = id, !.scan = set_scan_rsp,
                         !.write = i])

\* LeAdvertisingManager::SetData with data to seal, as the shim calls it
SetEncData ==
  \E id \in InUse(advertising_sets_), i \in 1..Len(WritePool),
     set_scan_rsp \in BOOLEAN :
    /\ ghost.writes < MaxWrites
    /\ Commit(set_enc_data(Pack, id, set_scan_rsp, WritePool[i].data,
                           WritePool[i].enc),
              [Ev EXCEPT !.op = "SetEncData", !.id = id, !.scan = set_scan_rsp,
                         !.write = i])

\* The ResetAdvertiser call the shim posted when a set failed to start
ResetAdvertiser ==
  \E id \in posts :
    Commit(reset_advertiser([Pack EXCEPT !.posts = @ \ {id}], id),
           [Ev EXCEPT !.op = "ShimReset", !.id = id])

\* The controller completes the oldest command
HciCommandComplete ==
  /\ hci # <<>>
  /\ \E ok \in BOOLEAN, selected_tx_power \in 0..MaxSelTx :
       Commit(RunClosure([Pack EXCEPT !.hci = Tail(@)], Head(hci), ok,
                         selected_tx_power),
              [Ev EXCEPT !.op = "HciComplete", !.c = Head(hci), !.ok = ok,
                         !.id = Head(hci).id])

TerminationStatuses ==
  {"SUCCESS", "LIMIT_REACHED", "ADVERTISING_TIMEOUT",
   "OPERATION_CANCELLED_BY_HOST"}

\* LE Advertising Set Terminated for a set the controller is advertising
SetTerminated ==
  /\ advertising_api_type_ = "EXTENDED"
  /\ \E id \in ghost.ctl \cap Ids, status \in TerminationStatuses :
       Commit(handle_set_terminated(Pack, id, status),
              [Ev EXCEPT !.op = "SetTerminated", !.id = id, !.st = status])

\* The vendor event BLE_STCHANGE for an instance the controller advertises
StateChange ==
  /\ advertising_api_type_ = "ANDROID_HCI"
  /\ \E id \in ghost.ctl \cap Ids,
        reason \in {"CONNECTION_RECEIVED", "DURATION_EXPIRED"} :
       Commit(multi_advertising_state_change(Pack, id, reason),
              [Ev EXCEPT !.op = "StateChange", !.id = id, !.st = reason])

\* The address rotation alarm of a set goes off; the address manager can
\* mint one more value than at creation, so that the address can change
RotationTimer ==
  \E id \in DOMAIN advertising_sets_, na \in 1..(NumAddr + 1) :
    /\ advertising_sets_[id].address_rotation_alarm
    /\ Commit(set_advertising_set_random_address_on_timer(Pack, id, na),
              [Ev EXCEPT !.op = "RotationTimer", !.id = id, !.na = na])

\* The address manager pauses its registered clients, and resumes them
Pause ==
  /\ address_manager_registered /\ ~paused
  /\ Commit(OnPause(Pack), [Ev EXCEPT !.op = "OnPause"])

Resume ==
  /\ address_manager_registered /\ paused
  /\ Commit(OnResume(Pack), [Ev EXCEPT !.op = "OnResume"])

\* The address manager tells its registered clients that the IRK has changed
IRKChange ==
  \E nas \in [Ids -> 1..(NumAddr + 1)] :
    /\ address_manager_registered
    /\ Commit(NotifyOnIRKChange(Pack, nas), [Ev EXCEPT !.op = "NotifyOnIRKChange"])

\* Allocation and release of advertiser ids
Next ==
  \/ RegisterAdvertiser
  \/ CreateAdvertiser({1, 8})
  \/ EnableAdvertiser({<<TRUE, 0, 0>>})
  \/ RemoveAdvertiser
  \/ ResetAdvertiser
  \/ HciCommandComplete

Spec == Init /\ [][Next]_vars

\* Pausing and resuming by the address manager
NextPause ==
  \/ CreateAdvertiser({1, 2, 6, 7})
  \/ EnableAdvertiser(EnablePool)
  \/ RemoveAdvertiser
  \/ ResetAdvertiser
  \/ HciCommandComplete
  \/ Pause
  \/ Resume

SpecPause == Init /\ [][NextPause]_vars

\* The rotation alarm, on the controllers that have it
NextRotation ==
  \/ CreateAdvertiser({1, 5, 6})
  \/ EnableAdvertiser(EnablePool)
  \/ HciCommandComplete
  \/ RotationTimer
  \/ Pause
  \/ Resume

InitRotation ==
  /\ Started(FewAdvInstances) /\ Environment
  /\ advertising_api_type_ = "EXTENDED"

SpecRotation == InitRotation /\ [][NextRotation]_vars

\* The events of the controller, on the controllers that report them
NextEvents ==
  \/ RegisterAdvertiser
  \/ StartAdvertising
  \/ CreateAdvertiser({1, 2, 3})
  \/ EnableAdvertiser({<<TRUE, 0, 0>>})
  \/ RemoveAdvertiser
  \/ HciCommandComplete
  \/ SetTerminated
  \/ StateChange

InitEvents ==
  /\ Started(FewAdvInstances) /\ Environment
  /\ advertising_api_type_ # "LEGACY"

SpecEvents == InitEvents /\ [][NextEvents]_vars

\* Data writes to the one set of a controller, under every API type, with
\* short and with long advertising data and both values of the flag that
\* lets an element be longer than a fragment
NextData ==
  \/ CreateAdvertiser({1, 9})
  \/ HciCommandComplete
  \/ SetData
  \/ SetEncData

InitData ==
  /\ Started(FewAdvInstances)
  /\ le_maximum_advertising_data_length_
       \in {kLeMaximumLegacyAdvertisingDataLength, LongDataLength}
  /\ address_policy = "USE_RESOLVABLE_ADDRESS"
  /\ flags \in {f \in FlagValues :
                  /\ f.ble_check_data_length_on_legacy_advertising
                  /\ f.nrpa_non_connectable_adv}
  /\ le_tx_path_loss_comp_ = 0

SpecData == InitData /\ [][NextData]_vars

\* The rotation alarm of sets whose sealed data needs more than one fragment,
\* on a controller with long advertising data
NextChained ==
  \/ CreateAdvertiser({1, 28})
  \/ HciCommandComplete
  \/ RotationTimer
  \/ Pause
  \/ Resume

InitChained ==
  /\ Started(FewAdvInstances)
  /\ advertising_api_type_ = "EXTENDED"
  /\ le_maximum_advertising_data_length_ = LongDataLength
  /\ address_policy = "USE_RESOLVABLE_ADDRESS"
  /\ flags \in {f \in FlagValues :
                  /\ f.divide_long_single_gap_data
                  /\ f.ble_check_data_length_on_legacy_advertising
                  /\ f.nrpa_non_connectable_adv}
  /\ le_tx_path_loss_comp_ = 0

SpecChained == InitChained /\ [][NextChained]_vars

\* Rotation of sets that carry sealed advertising, scan-response and periodic
\* data in every combination
NextReseal ==
  \/ CreateAdvertiser({1, 6, 7, 29, 30, 31, 32})
  \/ HciCommandComplete
  \/ RotationTimer

SpecReseal == InitChained /\ [][NextReseal]_vars

\* The release of sets, by the clients and after a failed start, under every
\* API type and while the address manager pauses and resumes
NextRelease ==
  \/ CreateAdvertiser({1, 8})
  \/ EnableAdvertiser({<<TRUE, 0, 0>>})
  \/ RemoveAnyAdvertiser
  \/ ResetAdvertiser
  \/ HciCommandComplete
  \/ Pause
  \/ Resume

InitRelease == Started(FewAdvInstances) /\ Environment

SpecRelease == InitRelease /\ [][NextRelease]_vars

\* Creation with configurations the manager refuses, next to ones it takes
NextCreate ==
  \/ CreateAdvertiser({1, 3, 4, 10, 11, 12, 13})
  \/ RemoveAdvertiser
  \/ ResetAdvertiser
  \/ HciCommandComplete

SpecCreate == Init /\ [][NextCreate]_vars

\* The address types of sets, under every policy of the host and with and
\* without the flag for sets that cannot be connected to
NextAddress ==
  \/ CreateAdvertiser(14..19)
  \/ RemoveAdvertiser
  \/ HciCommandComplete

InitAddress ==
  /\ Started(FewAdvInstances)
  /\ le_maximum_advertising_data_length_ = kLeMaximumLegacyAdvertisingDataLength
  /\ address_policy \in Policies
  /\ flags \in {f \in FlagValues :
                  /\ f.divide_long_single_gap_data
                  /\ f.ble_check_data_length_on_legacy_advertising}
  /\ le_tx_path_loss_comp_ = 0

SpecAddress == InitAddress /\ [][NextAddress]_vars

\* A change of the IRK, for sets of every address type, under every API type
NextIRK ==
  \/ CreateAdvertiser({1, 14})
  \/ EnableAdvertiser({<<FALSE, 0, 0>>})
  \/ HciCommandComplete
  \/ IRKChange

InitIRK == Started(MaxAdvInstances) /\ Environment

SpecIRK == InitIRK /\ [][NextIRK]_vars

\* The tx power of sets, for the path loss compensations of the platform
NextPower ==
  \/ CreateAdvertiser(20..27)
  \/ RemoveAdvertiser
  \/ HciCommandComplete

InitPower ==
  /\ Started(FewAdvInstances)
  /\ le_maximum_advertising_data_length_ = kLeMaximumLegacyAdvertisingDataLength
  /\ address_policy = "USE_RESOLVABLE_ADDRESS"
  /\ flags \in {f \in FlagValues :
                  /\ f.divide_long_single_gap_data
                  /\ f.ble_check_data_length_on_legacy_advertising
                  /\ f.nrpa_non_connectable_adv}
  /\ le_tx_path_loss_comp_ \in Compensations

SpecPower == InitPower /\ [][NextPower]_vars

(***************************************************************************)
(* The key material of encrypted advertising.                              *)
(***************************************************************************)
\* The state of the key material path as one value, and the entries of the
\* step: a write to storage (k = "SetBin"), a callback (k = "cb") or a
\* command (k = "cmd")
KeyPack == [enc |-> enc_data, kiv |-> key_iv, q |-> rand_queue, log |-> <<>>]

KeyEnt(k, bytes) == [k |-> k, bytes |-> bytes]

\* enc_key_material_callback_->OnGetEncKeyMaterial(bytes, uuid)
OnGetEncKeyMaterial(p, bytes) == [p EXCEPT !.log = Append(@, KeyEnt("cb", bytes))]

\* storage_module_->SetBin("Adapter", BTIF_STORAGE_KEY_ENCR_DATA, bytes)
SetBin(p, bytes) ==
  [p EXCEPT !.enc = <<bytes>>, !.log = Append(@, KeyEnt("SetBin", bytes))]

\* hci_layer_->EnqueueCommand(LeRandBuilder::Create(), GenerateKeyIV(key_iv, iteration))
EnqueueLeRand(p, iteration) ==
  [p EXCEPT !.q = Append(@, iteration), !.log = Append(@, KeyEnt("cmd", <<>>))]

\* vector::insert(begin() + at, bytes)
InsertAt(v, at, bytes) == SubSeq(v, 1, at) \o bytes \o SubSeq(v, at + 1, Len(v))

\* The third completion: the value made of the buffers is stored and then
\* handed to the callback
StoreAndReport(p, completeKeyIV) ==
  OnGetEncKeyMaterial(SetBin(p, completeKeyIV), completeKeyIV)

\* temp_rand holds the 8 bytes of the random number of the completion
GenerateKeyIV(p, iteration, temp_rand) ==
  CASE iteration = 1 ->
         [p EXCEPT !.kiv.key = @ \o temp_rand]
    [] iteration = 2 ->
         [p EXCEPT !.kiv.key = InsertAt(@, kRandBytes, temp_rand)]
    [] iteration = 3 ->
         StoreAndReport([p EXCEPT !.kiv.iv = @ \o temp_rand],
                        p.kiv.key \o p.kiv.iv \o temp_rand)
    [] OTHER -> OnGetEncKeyMaterial(p, Head(p.enc))

\* The entry is read before it is known to be there; what is read of an
\* absent entry does not matter, as the test for the property comes first
get_enc_key_material(p) ==
  IF p.enc = <<>> \/ Len(Head(p.enc)) < ENC_KEY_MATERIAL_LEN
  THEN EnqueueLeRand(EnqueueLeRand(EnqueueLeRand(p, 1), 2), 3)
  ELSE OnGetEncKeyMaterial(p, Head(p.enc))

\* The random numbers of the controller, as the 8 bytes memcpy makes of them
Rands == {[i \in 1..kRandBytes |-> 16 * r + i] : r \in 1..NumRand}

KeyCommit(p, e) ==
  /\ enc_data' = p.enc
  /\ key_iv' = p.kiv
  /\ rand_queue' = p.q
  /\ keyev' = [e EXCEPT !.log = p.log]
  /\ keyghost' = [calls |-> IF e.op = "GetEncKeyMaterial" THEN keyghost.calls + 1
                            ELSE keyghost.calls,
                  runs |-> IF e.iteration = 3 THEN keyghost.runs + 1
                           ELSE keyghost.runs]
  /\ UNCHANGED advVars
  /\ UNCHANGED pmVars

\* LeAdvertisingManager::GetEncKeyMaterial, called by the shim
GetEncKeyMaterial ==
  /\ keyghost.calls < MaxKeyCalls
  /\ KeyCommit(get_enc_key_material(KeyPack),
               [KeyEv EXCEPT !.op = "GetEncKeyMaterial"])

\* The controller completes the oldest LE_RAND command
LeRandComplete ==
  /\ rand_queue # <<>>
  /\ \E temp_rand \in Rands :
       KeyCommit(GenerateKeyIV([KeyPack EXCEPT !.q = Tail(@)], Head(rand_queue),
                               temp_rand),
                 [KeyEv EXCEPT !.op = "GenerateKeyIV",
                               !.iteration = Head(rand_queue)])

NextKey ==
  \/ GetEncKeyMaterial
  \/ LeRandComplete

SpecKey == InitRotation /\ [][NextKey]_vars

(***************************************************************************)
(* The classic power manager: its tables.                                  *)
(***************************************************************************)
RECURSIVE BitAnd(_, _)
BitAnd(a, b) ==
  IF a = 0 \/ b = 0 THEN 0
  ELSE (a % 2) * (b % 2) + 2 * BitAnd(a \div 2, b \div 2)

BitOr(a, b) == a + b - BitAnd(a, b)

\* tBTA_SYS_CONN_STATUS, the values the profiles of the model report
ConnStatuses ==
  {"BTA_SYS_CONN_OPEN", "BTA_SYS_CONN_CLOSE", "BTA_SYS_SCO_OPEN",
   "BTA_SYS_SCO_CLOSE", "BTA_SYS_CONN_IDLE", "BTA_SYS_CONN_BUSY"}

Actn(power_mode, timeout) == [power_mode |-> power_mode, timeout |-> timeout]

\* p_bta_dm_pm_cfg[1 ..]: the services with a power mode entry
p_bta_dm_pm_cfg ==
  << [id |-> "BTA_ID_AG", app_id |-> BTA_ALL_APP_ID, spec_idx |-> 0],
     [id |-> "BTA_ID_AV", app_id |-> BTA_ALL_APP_ID, spec_idx |-> 1],
     [id |-> "BTA_ID_PAN", app_id |-> BTA_ALL_APP_ID, spec_idx |-> 2] >>

\* get_bta_dm_pm_spec(): per spec the modes allowed, the SSR entry and the
\* action per connection status; timeouts are in ticks of the model's clock
bta_dm_pm_spec ==
  << [allow_mask |-> BitOr(BTA_DM_PM_SNIFF, BTA_DM_PM_PARK),
      ssr |-> BTA_DM_PM_SSR2,
      actn_tbl |->
        [st \in ConnStatuses |->
           CASE st = "BTA_SYS_CONN_OPEN" -> Actn(BTA_DM_PM_SNIFF, 2)
             [] st = "BTA_SYS_CONN_CLOSE" -> Actn(BTA_DM_PM_NO_PREF, 0)
             [] st = "BTA_SYS_SCO_OPEN" -> Actn(BTA_DM_PM_SNIFF3, 2)
             [] st = "BTA_SYS_SCO_CLOSE" -> Actn(BTA_DM_PM_SNIFF, 2)
             [] st = "BTA_SYS_CONN_IDLE" -> Actn(BTA_DM_PM_NO_ACTION, 0)
             [] st = "BTA_SYS_CONN_BUSY" -> Actn(BTA_DM_PM_ACTIVE, 0)]],
     [allow_mask |-> BTA_DM_PM_SNIFF,
      ssr |-> BTA_DM_PM_SSR2,
      actn_tbl |->
        [st \in ConnStatuses |->
           CASE st = "BTA_SYS_CONN_OPEN" -> Actn(BTA_DM_PM_SNIFF, 1)
             [] st = "BTA_SYS_CONN_CLOSE" -> Actn(BTA_DM_PM_NO_PREF, 0)
             [] st = "BTA_SYS_SCO_OPEN" -> Actn(BTA_DM_PM_NO_ACTION, 0)
             [] st = "BTA_SYS_SCO_CLOSE" -> Actn(BTA_DM_PM_NO_ACTION, 0)
             [] st = "BTA_SYS_CONN_IDLE" -> Actn(BTA_DM_PM_SNIFF, 1)
             [] st = "BTA_SYS_CONN_BUSY" -> Actn(BTA_DM_PM_ACTIVE, 0)]],
     [allow_mask |-> BitOr(BTA_DM_PM_SNIFF, BTA_DM_PM_PARK),
      ssr |-> BTA_DM_PM_SSR2,
      actn_tbl |->
        [st \in ConnStatuses |->
           CASE st = "BTA_SYS_CONN_OPEN" -> Actn(BTA_DM_PM_PARK, 2)
             [] st = "BTA_SYS_CONN_CLOSE" -> Actn(BTA_DM_PM_NO_PREF, 0)
             [] st = "BTA_SYS_CONN_IDLE" -> Actn(BTA_DM_PM_PARK, 2)
             [] st = "BTA_SYS_CONN_BUSY" -> Actn(BTA_DM_PM_ACTIVE, 0)
             [] OTHER -> Actn(BTA_DM_PM_NO_ACTION, 0)]] >>

\* p_bta_dm_ssr_spec[index].max_lat
p_bta_dm_ssr_spec ==
  [index \in 0..BTA_DM_PM_SSR4 |->
     [max_lat |-> CASE index = BTA_DM_PM_SSR0 -> 0
                    [] index = BTA_DM_PM_SSR_HH -> 0
                    [] index = 3 -> 360
                    [] OTHER -> 1200]]

\* The loop that looks a service up in p_bta_dm_pm_cfg: the index of its
\* entry, or one more than the number of entries
CfgIndex(id, app_id) ==
  LET hits == {i \in 1..Len(p_bta_dm_pm_cfg) :
                 /\ p_bta_dm_pm_cfg[i].id = id
                 /\ p_bta_dm_pm_cfg[i].app_id \in {BTA_ALL_APP_ID, app_id}}
  IN IF hits = {} THEN Len(p_bta_dm_pm_cfg) + 1
     ELSE CHOOSE i \in hits : \A k \in hits : i <= k

SpecOf(id, app_id) == bta_dm_pm_spec[p_bta_dm_pm_cfg[CfgIndex(id, app_id)].spec_idx + 1]

(***************************************************************************)
(* The classic power manager: the timer bank.                              *)
(***************************************************************************)
PmPack ==
  [srvcs |-> bta_dm_conn_srvcs, tm |-> pm_timer, al |-> pm_alarm,
   dev |-> device_list, q |-> main_thread, link |-> link, log |-> <<>>]

\* One entry of what a step does: a timer started (k = "start") or stopped
\* (k = "stop"), a failed ASSERT_LOG (k = "assert"), a task posted to the
\* main thread (k = "post"), a call of BTM_SetPowerMode or of
\* BTM_SetSsrParams (k = "btm"), or the remaining time read from the alarm of
\* a slot (k = "remaining": rem of the alarm, against the timeout ms)
PmEnt ==
  [k |-> "", op |-> "", peer |-> 0, action |-> 0, mode |-> "", res |-> "",
   slot |-> 0, idx |-> 0, ms |-> 0, srvc |-> "", ssr |-> 0, rem |-> 0,
   armed |-> FALSE]

PmLog(p, e) == [p EXCEPT !.log = Append(@, e)]

bta_pm_action_to_timer_idx(pm_action) ==
  IF pm_action = BTA_DM_PM_SUSPEND THEN BTA_DM_PM_SUSPEND_TIMER_IDX
  ELSE IF pm_action = BTA_DM_PM_PARK THEN BTA_DM_PM_PARK_TIMER_IDX
  ELSE IF BitAnd(pm_action, BTA_DM_PM_SNIFF) = BTA_DM_PM_SNIFF
  THEN BTA_DM_PM_SNIFF_TIMER_IDX
  ELSE BTA_DM_PM_MODE_TIMER_MAX

\* alarm_cancel: the alarm is no longer scheduled; a callback that is
\* already waiting on the main thread stays there, and the model notes on it
\* that its alarm was cancelled
alarm_cancel(p, i, j) ==
  [p EXCEPT !.al[i][j] = Alarm0,
            !.q = [n \in DOMAIN @ |->
                     IF @[n].t = "bta_dm_pm_timer_cback" /\ @[n].slot = i /\ @[n].idx = j
                     THEN [@[n] EXCEPT !.cancelled = TRUE]
                     ELSE @[n]]]

alarm_set_on_mloop(p, i, j, timeout_ms) ==
  [p EXCEPT !.al[i][j] = [armed |-> TRUE, ms |-> timeout_ms]]

alarm_get_remaining_ms(p, i, j) == IF p.al[i][j].armed THEN p.al[i][j].ms ELSE 0

bta_dm_pm_start_timer(p, i, timer_idx, timeout_ms, srvc_id, pm_action) ==
  alarm_set_on_mloop(
    PmLog([p EXCEPT
             !.tm[i].in_use = TRUE,
             !.tm[i].active = IF p.tm[i].srvc_id[timer_idx] = "BTA_ID_MAX"
                              THEN (@ + 1) % kUint8 ELSE @,
             !.tm[i].pm_action[timer_idx] = IF @ < pm_action THEN pm_action ELSE @,
             !.tm[i].srvc_id[timer_idx] = srvc_id],
          [PmEnt EXCEPT !.k = "start", !.peer = p.tm[i].peer_bdaddr, !.slot = i,
                        !.idx = timer_idx, !.ms = timeout_ms, !.srvc = srvc_id,
                        !.action = pm_action]),
    i, timer_idx, timeout_ms)

\* The bookkeeping of a stop; ASSERT_LOG reports a slot that is not in use
\* or has no active index
StopBookkeeping(p, i, timer_idx) ==
  PmLog([p EXCEPT
           !.tm[i].srvc_id[timer_idx] = "BTA_ID_MAX",
           !.tm[i].active = (@ + kUint8 - 1) % kUint8,
           !.tm[i].in_use = IF (p.tm[i].active + kUint8 - 1) % kUint8 = 0
                            THEN FALSE ELSE @],
        [PmEnt EXCEPT !.k = IF p.tm[i].in_use /\ p.tm[i].active > 0
                            THEN "stop" ELSE "assert",
                      !.peer = p.tm[i].peer_bdaddr, !.slot = i, !.idx = timer_idx])

\* A stop that leaves the count of active indices as it is
StopKeepsCount(p, i, timer_idx) ==
  IF timer_idx >= BTA_DM_PM_MODE_TIMER_MAX THEN p
  ELSE alarm_cancel([p EXCEPT !.tm[i].srvc_id[timer_idx] = "BTA_ID_MAX"], i, timer_idx)

bta_dm_pm_stop_timer_by_index(p, i, timer_idx) ==
  IF timer_idx >= BTA_DM_PM_MODE_TIMER_MAX THEN p
  ELSE IF p.tm[i].srvc_id[timer_idx] = "BTA_ID_MAX" THEN p
  ELSE alarm_cancel(StopBookkeeping(p, i, timer_idx), i, timer_idx)

\* The first slot in use for the peer, or BTA_DM_NUM_PM_TIMER
PeerSlot(tm, peer_addr) ==
  LET hits == {i \in TimerSlots : tm[i].in_use /\ tm[i].peer_bdaddr = peer_addr}
  IN IF hits = {} THEN BTA_DM_NUM_PM_TIMER
     ELSE CHOOSE i \in hits : \A k \in hits : i <= k

RECURSIVE StopIndicesFrom(_, _, _)
StopIndicesFrom(p, i, j) ==
  IF j = BTA_DM_PM_MODE_TIMER_MAX THEN p
  ELSE StopIndicesFrom(bta_dm_pm_stop_timer_by_index(p, i, j), i, j + 1)

bta_dm_pm_stop_timer(p, peer_addr) ==
  IF PeerSlot(p.tm, peer_addr) = BTA_DM_NUM_PM_TIMER THEN p
  ELSE StopIndicesFrom(p, PeerSlot(p.tm, peer_addr), 0)

bta_dm_pm_stop_timer_by_mode(p, peer_addr, power_mode) ==
  LET timer_idx == bta_pm_action_to_timer_idx(power_mode)
      i == PeerSlot(p.tm, peer_addr)
  IN IF timer_idx = BTA_DM_PM_MODE_TIMER_MAX \/ i = BTA_DM_NUM_PM_TIMER THEN p
     ELSE IF p.tm[i].srvc_id[timer_idx] = "BTA_ID_MAX" THEN p
     ELSE [bta_dm_pm_stop_timer_by_index(p, i, timer_idx) EXCEPT
             !.tm[i].pm_action[timer_idx] = power_mode]

\* The body of the loop over the slots: the first index the service started
StopServiceInSlot(p, i, peer_addr, srvc_id) ==
  LET hits == {j \in TimerIdxs : p.tm[i].srvc_id[j] = srvc_id}
      j0 == CHOOSE j \in hits : \A k \in hits : j <= k
  IN IF ~(p.tm[i].in_use /\ p.tm[i].peer_bdaddr = peer_addr) \/ hits = {} THEN p
     ELSE [bta_dm_pm_stop_timer_by_index(p, i, j0) EXCEPT
             !.tm[i].pm_action[j0] = BTA_DM_PM_NO_ACTION]

RECURSIVE StopServiceFrom(_, _, _, _)
StopServiceFrom(p, i, peer_addr, srvc_id) ==
  IF i = BTA_DM_NUM_PM_TIMER THEN p
  ELSE StopServiceFrom(StopServiceInSlot(p, i, peer_addr, srvc_id), i + 1,
                       peer_addr, srvc_id)

bta_dm_pm_stop_timer_by_srvc_id(p, peer_addr, srvc_id) ==
  StopServiceFrom(p, 0, peer_addr, srvc_id)

(***************************************************************************)
(* The classic power manager: the controller's side and the mode changes.  *)
(***************************************************************************)
\* BTM_SetPowerMode: BTM_SUCCESS when the link is in the mode already,
\* BTM_CMD_STORED while an earlier command is not answered, else
\* BTM_CMD_STARTED
BtmResult(p, peer_addr, mode) ==
  IF p.link[peer_addr].pending # <<>> THEN "BTM_CMD_STORED"
  ELSE IF p.link[peer_addr].mode = mode THEN "BTM_SUCCESS"
  ELSE "BTM_CMD_STARTED"

BTM_SetPowerMode(p, peer_addr, mode, pm_action) ==
  PmLog([p EXCEPT !.link[peer_addr].pending =
                    IF BtmResult(p, peer_addr, mode) = "BTM_SUCCESS" THEN @
                    ELSE Append(@, mode)],
        [PmEnt EXCEPT !.k = "btm", !.op = "BTM_SetPowerMode", !.peer = peer_addr,
                      !.mode = mode, !.action = pm_action,
                      !.res = BtmResult(p, peer_addr, mode)])

BTM_SetSsrParams(p, peer_addr, ssr_index) ==
  PmLog(p, [PmEnt EXCEPT !.k = "btm", !.op = "BTM_SetSsrParams",
                         !.peer = peer_addr, !.ssr = ssr_index])

bta_dm_pm_park(p, peer_addr) ==
  IF p.link[peer_addr].mode # "PARK"
  THEN BTM_SetPowerMode(p, peer_addr, "PARK", BTA_DM_PM_PARK)
  ELSE p

\* The flags of p_peer_dev->info after BTM_SetPowerMode returned
SniffInfo(info, status) ==
  IF status \in {"BTM_CMD_STORED", "BTM_CMD_STARTED"}
  THEN (info \ {"BTA_DM_DI_INT_SNIFF", "BTA_DM_DI_ACP_SNIFF"}) \cup {"BTA_DM_DI_SET_SNIFF"}
  ELSE info \ {"BTA_DM_DI_INT_SNIFF", "BTA_DM_DI_ACP_SNIFF", "BTA_DM_DI_SET_SNIFF"}

bta_dm_pm_sniff(p, peer_addr, index) ==
  IF /\ p.link[peer_addr].mode = "SNIFF"
     /\ p.link[peer_addr].ssr
     /\ "BTA_DM_DI_USE_SSR" \notin p.dev[peer_addr].info
     /\ "BTA_DM_DI_ACP_SNIFF" \in p.dev[peer_addr].info
  THEN p
  ELSE [BTM_SetPowerMode(p, peer_addr, "SNIFF", BitOr(BTA_DM_PM_SNIFF, index)) EXCEPT
          !.dev[peer_addr].info = SniffInfo(@, BtmResult(p, peer_addr, "SNIFF"))]

bta_dm_pm_active(p, peer_addr) ==
  BTM_SetPowerMode(p, peer_addr, "ACTIVE", BTA_DM_PM_ACTIVE)

\* The index of the first service in BTA_SYS_SCO_OPEN, counted from 1, or 0
bta_dm_get_sco_index(srvcs) ==
  LET hits == {j \in 1..Len(srvcs) : srvcs[j].state = "BTA_SYS_SCO_OPEN"}
  IN IF hits = {} THEN 0 ELSE CHOOSE j \in hits : \A k \in hits : j <= k

\* One service of the loop that selects the SSR entry
SsrStep(ssr_index, srv, peer_addr) ==
  LET current_ssr_index == SpecOf(srv.id, srv.app_id).ssr
  IN IF srv.peer_bdaddr # peer_addr THEN ssr_index
     ELSE IF current_ssr_index = BTA_DM_PM_SSR_HH THEN ssr_index
     ELSE IF \/ p_bta_dm_ssr_spec[current_ssr_index].max_lat
                  < p_bta_dm_ssr_spec[ssr_index].max_lat
             \/ (ssr_index = BTA_DM_PM_SSR0 /\ current_ssr_index # BTA_DM_PM_SSR0)
     THEN current_ssr_index
     ELSE ssr_index

RECURSIVE SsrIndex(_, _, _, _)
SsrIndex(srvcs, i, peer_addr, ssr_index) ==
  IF i > Len(srvcs) THEN ssr_index
  ELSE SsrIndex(srvcs, i + 1, peer_addr, SsrStep(ssr_index, srvcs[i], peer_addr))

\* The end of bta_dm_pm_ssr, with the entry the loop selected
SsrApply(p, peer_addr, ssr_index) ==
  IF p_bta_dm_ssr_spec[ssr_index].max_lat = 0 THEN p
  ELSE IF /\ bta_dm_get_sco_index(p.srvcs) # 0
          /\ p.srvcs[bta_dm_get_sco_index(p.srvcs)].peer_bdaddr = peer_addr
  THEN p
  ELSE BTM_SetSsrParams(p, peer_addr, ssr_index)

bta_dm_pm_ssr(p, peer_addr, ssr) ==
  SsrApply(p, peer_addr, SsrIndex(p.srvcs, 1, peer_addr, ssr))

(***************************************************************************)
(* The classic power manager: bta_dm_pm_set_mode.                          *)
(***************************************************************************)
\* A check that lets every preference pass
AlwaysPreferred(failed_pm, power_mode) == TRUE

\* "first check if the first preference is ok"
PreferenceOk(failed_pm, power_mode) == BitAnd(failed_pm, power_mode) = 0

SetMode0 ==
  [pm_action |-> BTA_DM_PM_NO_ACTION, timeout_ms |-> 0, allowed_modes |-> 0,
   pref_modes |-> 0, out |-> <<>>]

\* One service of the loop over bta_dm_conn_srvcs
SetModeStep(a, srv, peer_addr, failed_pm, pm_req) ==
  LET p_pm_spec == SpecOf(srv.id, srv.app_id)
      p_act0 == p_pm_spec.actn_tbl[srv.state]
      ok == PreferenceOk(failed_pm, p_act0.power_mode)
      wins == ok /\ p_act0.power_mode >= a.pm_action
      adopt == wins /\ (pm_req # "BTA_DM_PM_NEW_REQ" \/ srv.new_request)
  IN IF srv.peer_bdaddr # peer_addr THEN [a EXCEPT !.out = Append(@, srv)]
     ELSE [allowed_modes |-> BitOr(a.allowed_modes, p_pm_spec.allow_mask),
           pref_modes |-> IF ok THEN BitOr(a.pref_modes, p_act0.power_mode)
                          ELSE a.pref_modes,
           pm_action |-> IF wins THEN p_act0.power_mode ELSE a.pm_action,
           timeout_ms |-> IF adopt THEN p_act0.timeout ELSE a.timeout_ms,
           out |-> Append(a.out, IF adopt THEN [srv EXCEPT !.new_request = FALSE]
                                 ELSE srv)]

RECURSIVE SetModeLoop(_, _, _, _, _, _)
SetModeLoop(srvcs, i, a, peer_addr, failed_pm, pm_req) ==
  IF i > Len(srvcs) THEN a
  ELSE SetModeLoop(srvcs, i + 1,
                   SetModeStep(a, srvcs[i], peer_addr, failed_pm, pm_req),
                   peer_addr, failed_pm, pm_req)

\* "some service don't like the mode"
SetModeOverride(a) ==
  LET other == BitAnd(BitAnd(a.allowed_modes, BitOr(BTA_DM_PM_PARK, BTA_DM_PM_SNIFF)),
                      a.pref_modes)
  IN IF /\ BitAnd(a.pm_action, BitOr(BTA_DM_PM_PARK, BTA_DM_PM_SNIFF)) # 0
        /\ BitAnd(a.allowed_modes, a.pm_action) = 0
     THEN [a EXCEPT !.pm_action = other,
                    !.timeout_ms = IF other = BTA_DM_PM_NO_ACTION THEN 0 ELSE @]
     ELSE a

\* The slot the scan for a free timer ends with, BTA_DM_PM_MODE_TIMER_MAX
\* standing for none
RECURSIVE AvailableTimer(_, _, _, _)
AvailableTimer(tm, i, stop, available_timer) ==
  IF i = stop THEN available_timer
  ELSE AvailableTimer(tm, i + 1, stop,
                      IF ~tm[i].in_use /\ available_timer = BTA_DM_PM_MODE_TIMER_MAX
                      THEN i ELSE available_timer)

\* "remaining_ms = alarm_get_remaining_ms(...)", noted in the log of the step
RemainingRead(p, peer_addr, i, timer_idx, timeout_ms) ==
  PmLog(p, [PmEnt EXCEPT !.k = "remaining", !.peer = peer_addr, !.slot = i,
                         !.idx = timer_idx, !.ms = timeout_ms,
                         !.rem = alarm_get_remaining_ms(p, i, timer_idx),
                         !.armed = p.al[i][timer_idx].armed])

\* A start that takes a free slot without looking for the slot of the peer
SetModeTimerInFreeSlot(p, peer_addr, pm_action, timeout_ms, srvc_id) ==
  LET timer_idx == bta_pm_action_to_timer_idx(pm_action)
      available_timer == AvailableTimer(p.tm, 0, BTA_DM_NUM_PM_TIMER,
                                        BTA_DM_PM_MODE_TIMER_MAX)
  IN IF available_timer = BTA_DM_PM_MODE_TIMER_MAX THEN p
     ELSE IF timer_idx = BTA_DM_PM_MODE_TIMER_MAX
     THEN [p EXCEPT !.tm[available_timer].peer_bdaddr = peer_addr]
     ELSE bta_dm_pm_start_timer(
            [p EXCEPT !.tm[available_timer].peer_bdaddr = peer_addr],
            available_timer, timer_idx, timeout_ms, srvc_id, pm_action)

\* "if need to start a timer"
SetModeTimer(p, peer_addr, pm_action, timeout_ms, srvc_id) ==
  LET i == PeerSlot(p.tm, peer_addr)
      timer_idx == bta_pm_action_to_timer_idx(pm_action)
      available_timer == AvailableTimer(p.tm, 0, i, BTA_DM_PM_MODE_TIMER_MAX)
  IN IF i # BTA_DM_NUM_PM_TIMER /\ timer_idx # BTA_DM_PM_MODE_TIMER_MAX
     THEN IF alarm_get_remaining_ms(p, i, timer_idx) < timeout_ms
          THEN bta_dm_pm_start_timer(
                 bta_dm_pm_stop_timer_by_index(
                   RemainingRead(p, peer_addr, i, timer_idx, timeout_ms), i, timer_idx),
                 i, timer_idx, timeout_ms, srvc_id, pm_action)
          ELSE RemainingRead(p, peer_addr, i, timer_idx, timeout_ms)
     ELSE IF available_timer = BTA_DM_PM_MODE_TIMER_MAX THEN p
     ELSE IF timer_idx = BTA_DM_PM_MODE_TIMER_MAX
     THEN [p EXCEPT !.tm[available_timer].peer_bdaddr = peer_addr]
     ELSE bta_dm_pm_start_timer(
            [p EXCEPT !.tm[available_timer].peer_bdaddr = peer_addr],
            available_timer, timer_idx, timeout_ms, srvc_id, pm_action)

\* The link policy of the peers of the model allows sniff
BTM_is_sniff_allowed_for(peer_addr) == TRUE

\* The command for the action selected
SetModeExecute(p, peer_addr, pm_action) ==
  IF pm_action = BTA_DM_PM_PARK
  THEN bta_dm_pm_park([p EXCEPT !.dev[peer_addr].pm_mode_attempted = BTA_DM_PM_PARK],
                      peer_addr)
  ELSE IF BitAnd(pm_action, BTA_DM_PM_SNIFF) # 0
  THEN IF BTM_is_sniff_allowed_for(peer_addr)
       THEN bta_dm_pm_sniff(
              [p EXCEPT !.dev[peer_addr].pm_mode_attempted = BTA_DM_PM_SNIFF],
              peer_addr, BitAnd(pm_action, 15))
       ELSE p
  ELSE IF pm_action = BTA_DM_PM_ACTIVE THEN bta_dm_pm_active(p, peer_addr)
  ELSE p

\* What follows the loop, with the loop's result a
SetModeAct(p, peer_addr, pm_request, pm_req, a) ==
  IF pm_req # "BTA_DM_PM_EXECUTE" /\ a.timeout_ms > 0
  THEN SetModeTimer([p EXCEPT !.srvcs = a.out], peer_addr, a.pm_action,
                    a.timeout_ms, p.srvcs[Len(p.srvcs)].id)
  ELSE IF pm_req = "BTA_DM_PM_EXECUTE" /\ pm_request < a.pm_action
  THEN [p EXCEPT !.srvcs = a.out]
  ELSE SetModeExecute([p EXCEPT !.srvcs = a.out], peer_addr, a.pm_action)

\* The action one pass selects for the peer
SetModeDecision(p, peer_addr, pm_req) ==
  SetModeOverride(SetModeLoop(p.srvcs, 1, SetMode0, peer_addr,
                              p.dev[peer_addr].pm_mode_failed, pm_req))

bta_dm_pm_set_mode(p, peer_addr, pm_request, pm_req) ==
  IF peer_addr \notin DOMAIN p.dev THEN p
  ELSE SetModeAct(p, peer_addr, pm_request, pm_req,
                  SetModeDecision(p, peer_addr, pm_req))

(***************************************************************************)
(* The classic power manager: bta_dm_pm_cback.                             *)
(***************************************************************************)
\* The SSR entry a status change selects
CbackSsrIndex(p, status, id, app_id, peer_addr) ==
  IF /\ status = "BTA_SYS_CONN_OPEN"
     /\ peer_addr \in DOMAIN p.dev
     /\ "BTA_DM_DI_USE_SSR" \in p.dev[peer_addr].info
  THEN SpecOf(id, app_id).ssr
  ELSE IF id = "BTA_ID_AV" /\ status = "BTA_SYS_CONN_BUSY" THEN BTA_DM_PM_SSR4
  ELSE IF id = "BTA_ID_AV" /\ status = "BTA_SYS_CONN_IDLE" THEN SpecOf(id, app_id).ssr
  ELSE BTA_DM_PM_SSR0

\* The entry of the service in bta_dm_conn_srvcs, or one past the last
ServiceIndex(srvcs, id, app_id, peer_addr) ==
  LET hits == {j \in 1..Len(srvcs) : /\ srvcs[j].id = id
                                     /\ srvcs[j].app_id = app_id
                                     /\ srvcs[j].peer_bdaddr = peer_addr}
  IN IF hits = {} THEN Len(srvcs) + 1 ELSE CHOOSE j \in hits : \A k \in hits : j <= k

RemoveAt(s, j) == [k \in 1..(Len(s) - 1) |-> IF k < j THEN s[k] ELSE s[k + 1]]

\* The returns of bta_dm_pm_cback that come before the table is changed
CbackReturns(p, status, id, app_id, peer_addr) ==
  LET power_mode == SpecOf(id, app_id).actn_tbl[status].power_mode
      j == ServiceIndex(p.srvcs, id, app_id, peer_addr)
  IN \/ /\ power_mode = BTA_DM_PM_NO_ACTION
        /\ CbackSsrIndex(p, status, id, app_id, peer_addr) = BTA_DM_PM_SSR0
     \/ power_mode = BTA_DM_PM_NO_PREF /\ j > Len(p.srvcs)
     \/ /\ power_mode # BTA_DM_PM_NO_PREF
        /\ j > Len(p.srvcs)
        /\ Len(p.srvcs) = BTA_DM_NUM_CONN_SRVS

\* bta_dm_conn_srvcs after the status change
CbackServices(srvcs, status, id, app_id, peer_addr) ==
  LET j == ServiceIndex(srvcs, id, app_id, peer_addr)
  IN IF SpecOf(id, app_id).actn_tbl[status].power_mode = BTA_DM_PM_NO_PREF
     THEN RemoveAt(srvcs, j)
     ELSE IF j > Len(srvcs)
     THEN Append(srvcs, [id |-> id, app_id |-> app_id, new_request |-> TRUE,
                         peer_bdaddr |-> peer_addr, state |-> status])
     ELSE [srvcs EXCEPT ![j].new_request = TRUE, ![j].state = status]

\* "p_dev->pm_mode_attempted = 0; p_dev->pm_mode_failed = 0;"
CbackResetModes(p, peer_addr) ==
  IF peer_addr \in DOMAIN p.dev
  THEN [p EXCEPT !.dev[peer_addr].pm_mode_attempted = 0,
                 !.dev[peer_addr].pm_mode_failed = 0]
  ELSE p

\* The sniff subrating part of bta_dm_pm_cback
CbackSsr(p, status, id, peer_addr, index) ==
  IF p_bta_dm_ssr_spec[index].max_lat # 0 \/ index = BTA_DM_PM_SSR_HH
  THEN IF id # "BTA_ID_AV" \/ status # "BTA_SYS_CONN_BUSY"
       THEN bta_dm_pm_ssr(p, peer_addr, index)
       ELSE p
  ELSE IF p.link[peer_addr].ssr /\ index = BTA_DM_PM_SSR0
  THEN IF status = "BTA_SYS_SCO_OPEN" THEN BTM_SetSsrParams(p, peer_addr, 0)
       ELSE IF status = "BTA_SYS_SCO_CLOSE"
       THEN bta_dm_pm_ssr(p, peer_addr, BTA_DM_PM_SSR0)
       ELSE p
  ELSE p

PmReq(srvcs) == IF Len(srvcs) > 0 THEN "BTA_DM_PM_RESTART" ELSE "BTA_DM_PM_NEW_REQ"

\* bta_dm_pm_cback from the change of the table on
CbackTail(p, status, id, peer_addr, index) ==
  bta_dm_pm_set_mode(
    CbackSsr(CbackResetModes(bta_dm_pm_stop_timer(p, peer_addr), peer_addr),
             status, id, peer_addr, index),
    peer_addr, BTA_DM_PM_NO_ACTION, PmReq(p.srvcs))

\* bta_dm_pm_cback after bta_dm_pm_stop_timer_by_srvc_id
CbackBody(p, status, id, app_id, peer_addr) ==
  IF CbackReturns(p, status, id, app_id, peer_addr) THEN p
  ELSE CbackTail([p EXCEPT !.srvcs = CbackServices(@, status, id, app_id, peer_addr)],
                 status, id, peer_addr,
                 CbackSsrIndex(p, status, id, app_id, peer_addr))

bta_dm_pm_cback(p, status, id, app_id, peer_addr) ==
  IF CfgIndex(id, app_id) > Len(p_bta_dm_pm_cfg) THEN p
  ELSE CbackBody(bta_dm_pm_stop_timer_by_srvc_id(p, peer_addr, id),
                 status, id, app_id, peer_addr)

(***************************************************************************)
(* The classic power manager: what runs on the main thread.                *)
(***************************************************************************)
PmTask ==
  [t |-> "", peer |-> 0, slot |-> 0, idx |-> 0, pm_request |-> 0,
   status |-> "", interval |-> 0, hci_status |-> 0, cancelled |-> FALSE]

do_in_main_thread(p, task) ==
  PmLog([p EXCEPT !.q = Append(@, task)],
        [PmEnt EXCEPT !.k = "post", !.op = task.t, !.peer = task.peer,
                      !.action = task.pm_request])

\* The slots the loop of bta_dm_pm_timer_cback passes before it stops at
\* slot stop: one in use with no active index is released
ReleaseIdle(tm, stop) ==
  [i \in TimerSlots |->
     IF i < stop /\ tm[i].in_use /\ tm[i].active = 0
     THEN [tm[i] EXCEPT !.in_use = FALSE]
     ELSE tm[i]]

\* The slot that owns the alarm
TimerExpired(p, i, j) ==
  PmLog([p EXCEPT
           !.tm = [ReleaseIdle(@, i) EXCEPT
                     ![i].active = (@ + kUint8 - 1) % kUint8,
                     ![i].srvc_id[j] = "BTA_ID_MAX",
                     ![i].in_use = IF (p.tm[i].active + kUint8 - 1) % kUint8 = 0
                                   THEN FALSE ELSE @]],
        [PmEnt EXCEPT !.k = "expire", !.peer = p.tm[i].peer_bdaddr, !.slot = i,
                      !.idx = j, !.srvc = p.tm[i].srvc_id[j]])

bta_dm_pm_timer_cback(p, i, j) ==
  IF ~p.tm[i].in_use
  THEN [p EXCEPT !.tm = ReleaseIdle(@, BTA_DM_NUM_PM_TIMER)]
  ELSE do_in_main_thread(
         TimerExpired(p, i, j),
         [PmTask EXCEPT !.t = "bta_dm_pm_timer", !.peer = p.tm[i].peer_bdaddr,
                        !.pm_request = p.tm[i].pm_action[j]])

bta_dm_pm_timer(p, bd_addr, pm_request) ==
  bta_dm_pm_set_mode(p, bd_addr, pm_request, "BTA_DM_PM_EXECUTE")

SniffFlags == {"BTA_DM_DI_INT_SNIFF", "BTA_DM_DI_ACP_SNIFF", "BTA_DM_DI_SET_SNIFF"}

LowPower == BitOr(BTA_DM_PM_PARK, BTA_DM_PM_SNIFF)

\* BTM_PM_STS_ACTIVE with a failure status
BtmStatusFailed(p, bd_addr) ==
  IF BitAnd(p.dev[bd_addr].pm_mode_attempted, LowPower) # 0
  THEN bta_dm_pm_set_mode(
         bta_dm_pm_stop_timer_by_mode(
           [p EXCEPT !.dev[bd_addr].info = @ \ SniffFlags,
                     !.dev[bd_addr].pm_mode_failed =
                        BitOr(@, BitAnd(LowPower, p.dev[bd_addr].pm_mode_attempted))],
           bd_addr, p.dev[bd_addr].pm_mode_attempted),
         bd_addr, BTA_DM_PM_NO_ACTION, "BTA_DM_PM_RESTART")
  ELSE [p EXCEPT !.dev[bd_addr].info = @ \ SniffFlags]

\* BTM_PM_STS_ACTIVE with status success, after the SSR parameters
BtmStatusActive(p, bd_addr) ==
  bta_dm_pm_set_mode(
    bta_dm_pm_stop_timer([p EXCEPT !.dev[bd_addr].prev_low = "ACTIVE"], bd_addr),
    bd_addr, BTA_DM_PM_NO_ACTION, "BTA_DM_PM_RESTART")

bta_dm_pm_btm_status(p, bd_addr, status, interval, hci_status) ==
  IF bd_addr \notin DOMAIN p.dev THEN p
  ELSE IF status = "ACTIVE" /\ hci_status # 0 THEN BtmStatusFailed(p, bd_addr)
  ELSE IF status = "ACTIVE"
  THEN BtmStatusActive(IF p.dev[bd_addr].prev_low # "ACTIVE"
                       THEN bta_dm_pm_ssr(p, bd_addr, BTA_DM_PM_SSR0) ELSE p,
                       bd_addr)
  ELSE IF status \in {"PARK", "HOLD"}
  THEN IF "BTA_DM_DI_USE_SSR" \in p.dev[bd_addr].info
       THEN [p EXCEPT !.dev[bd_addr].prev_low = status] ELSE p
  ELSE IF status = "SSR"
  THEN [p EXCEPT !.dev[bd_addr].info =
                   IF interval # 0 THEN @ \cup {"BTA_DM_DI_USE_SSR"}
                   ELSE @ \ {"BTA_DM_DI_USE_SSR"}]
  ELSE IF status = "SNIFF" /\ hci_status = 0 THEN bta_dm_pm_stop_timer(p, bd_addr)
  ELSE IF status = "SNIFF"
  THEN [p EXCEPT !.dev[bd_addr].info =
                   (@ \ SniffFlags) \cup
                     (IF "BTA_DM_DI_SET_SNIFF" \in p.dev[bd_addr].info
                      THEN {"BTA_DM_DI_INT_SNIFF"} ELSE {"BTA_DM_DI_ACP_SNIFF"})]
  ELSE IF status = "ERROR"
  THEN [p EXCEPT !.dev[bd_addr].info = @ \ {"BTA_DM_DI_SET_SNIFF"}]
  ELSE p

\* bta_dm_pm_btm_cback hands the event to the main thread
bta_dm_pm_btm_cback(p, bd_addr, status, interval, hci_status) ==
  do_in_main_thread(p, [PmTask EXCEPT !.t = "bta_dm_pm_btm_status", !.peer = bd_addr,
                                      !.status = status, !.interval = interval,
                                      !.hci_status = hci_status])

\* for (j...) bta_dm_pm_stop_timer_by_index(&pm_timer[i], j);
\* pm_action[j] = BTA_DM_PM_NO_ACTION
RECURSIVE DisableIndicesFrom(_, _, _)
DisableIndicesFrom(p, i, j) ==
  IF j = BTA_DM_PM_MODE_TIMER_MAX THEN p
  ELSE DisableIndicesFrom(
         [bta_dm_pm_stop_timer_by_index(p, i, j) EXCEPT
            !.tm[i].pm_action[j] = BTA_DM_PM_NO_ACTION],
         i, j + 1)

RECURSIVE DisableSlotsFrom(_, _)
DisableSlotsFrom(p, i) ==
  IF i = BTA_DM_NUM_PM_TIMER THEN p
  ELSE DisableSlotsFrom(DisableIndicesFrom(p, i, 0), i + 1)

\* The callbacks are deregistered from BTM and from bta_sys, which the
\* steps read from pmghost.disabled, and every timer is stopped
bta_dm_disable_pm(p) == DisableSlotsFrom(p, 0)

\* The task at the head of the main thread
RunHead(p, task) ==
  IF task.t = "bta_dm_pm_timer_cback" THEN bta_dm_pm_timer_cback(p, task.slot, task.idx)
  ELSE IF task.t = "bta_dm_pm_timer" THEN bta_dm_pm_timer(p, task.peer, task.pm_request)
  ELSE bta_dm_pm_btm_status(p, task.peer, task.status, task.interval, task.hci_status)

(***************************************************************************)
(* The classic power manager: the steps.                                   *)
(***************************************************************************)
\* The services of the model and the statuses each reports
PmServices == {"BTA_ID_AG", "BTA_ID_AV"}

ScoStatuses == {"BTA_SYS_SCO_OPEN", "BTA_SYS_SCO_CLOSE"}

\* A profile reports BTA_SYS_CONN_OPEN first, any other status while it is
\* connected, and the SCO statuses in turn
StatusPossible(g, status, id, peer_addr) ==
  /\ status = "BTA_SYS_CONN_OPEN" <=> <<peer_addr, id>> \notin g.open
  /\ status \in ScoStatuses => id = "BTA_ID_AG"
  /\ status = "BTA_SYS_SCO_OPEN" => peer_addr \notin g.sco
  /\ status = "BTA_SYS_SCO_CLOSE" => peer_addr \in g.sco

\* The issued commands of a step: calls of BTM_SetPowerMode that reach the
\* controller
Issued(log, peer_addr, mode) ==
  {n \in 1..Len(log) : /\ log[n].op = "BTM_SetPowerMode"
                       /\ log[n].peer = peer_addr
                       /\ log[n].mode = mode
                       /\ log[n].res # "BTM_SUCCESS"}

\* A timer of the peer has not run its action yet: its slot is in use, or
\* the task its callback posted waits on the main thread
TimerPending(peer_addr) ==
  \/ \E i \in TimerSlots : pm_timer[i].in_use /\ pm_timer[i].peer_bdaddr = peer_addr
  \/ \E n \in 1..Len(main_thread) :
       main_thread[n].t = "bta_dm_pm_timer" /\ main_thread[n].peer = peer_addr

HasService(srvcs, peer_addr) == \E n \in 1..Len(srvcs) : srvcs[n].peer_bdaddr = peer_addr

\* Per peer: did the last status change open a further service while a
\* timer was pending, and how many sniff commands followed
SecondNext(g, log, e, q) ==
  IF e.op = "bta_dm_pm_cback" /\ e.peer = q
  THEN [on |-> /\ e.status = "BTA_SYS_CONN_OPEN"
               /\ TimerPending(q)
               /\ HasService(bta_dm_conn_srvcs, q),
        sniffs |-> 0]
  ELSE IF e.op = "bta_dm_pm_btm_status" /\ e.peer = q
  THEN [on |-> FALSE, sniffs |-> 0]
  ELSE [on |-> g.second[q].on,
        sniffs |-> g.second[q].sniffs + Cardinality(Issued(log, q, "SNIFF"))]

\* Per peer: the low power modes reported failed since the last
\* BTA_SYS_CONN_OPEN of the peer was processed
FailedNext(g, e, q) ==
  IF e.peer # q THEN g.failed[q]
  ELSE IF e.op = "bta_dm_pm_cback" /\ e.status = "BTA_SYS_CONN_OPEN" THEN 0
  ELSE IF e.op = "bta_dm_pm_btm_status" /\ e.status = "ACTIVE" /\ e.hci # 0
  THEN BitOr(g.failed[q], BitAnd(LowPower, device_list[q].pm_mode_attempted))
  ELSE g.failed[q]

PmGhostNext(g, p, e) ==
  [g EXCEPT
     !.failed = [q \in Peers |-> FailedNext(g, e, q)],
     !.second = [q \in Peers |-> SecondNext(g, p.log, e, q)],
     !.disabled = @ \/ e.op = "bta_dm_disable_pm",
     !.calls = IF e.op = "bta_dm_pm_cback" THEN @ + 1 ELSE @,
     !.events = IF e.op = "ModeChange" THEN @ + 1 ELSE @,
     !.open = IF e.op # "bta_dm_pm_cback" THEN @
              ELSE IF e.status = "BTA_SYS_CONN_OPEN" THEN @ \cup {<<e.peer, e.id>>}
              ELSE IF e.status = "BTA_SYS_CONN_CLOSE" THEN @ \ {<<e.peer, e.id>>}
              ELSE @,
     !.sco = IF e.op # "bta_dm_pm_cback" THEN @
             ELSE IF e.status = "BTA_SYS_SCO_OPEN" THEN @ \cup {e.peer}
             ELSE IF e.status = "BTA_SYS_SCO_CLOSE" THEN @ \ {e.peer}
             ELSE IF e.status = "BTA_SYS_CONN_CLOSE" /\ e.id = "BTA_ID_AG"
             THEN @ \ {e.peer}
             ELSE @]

PmCommit(p, e) ==
  /\ Len(p.q) <= MaxTasks
  /\ bta_dm_conn_srvcs' = p.srvcs
  /\ pm_timer' = p.tm
  /\ pm_alarm' = p.al
  /\ device_list' = p.dev
  /\ main_thread' = p.q
  /\ link' = p.link
  /\ pmev' = [e EXCEPT !.log = p.log]
  /\ pmghost' = PmGhostNext(pmghost, p, e)
  /\ UNCHANGED advVars
  /\ UNCHANGED keyVars

\* bta_sys reports a change of a profile's connection status: one of
\* statuses, for a peer of peers, while fewer than max were reported
ConnStatusOf(peers, services, statuses, max) ==
  /\ pmghost.calls < max
  /\ \E peer_addr \in peers, id \in services, status \in statuses :
       /\ StatusPossible(pmghost, status, id, peer_addr)
       /\ PmCommit(bta_dm_pm_cback(PmPack, status, id, 0, peer_addr),
                   [PmEv EXCEPT !.op = "bta_dm_pm_cback", !.peer = peer_addr,
                                !.id = id, !.status = status])

ConnStatus(peers, statuses, max) == ConnStatusOf(peers, PmServices, statuses, max)

\* A tick of the clock: no alarm is due
Tick ==
  /\ \E i \in TimerSlots, j \in TimerIdxs : pm_alarm[i][j].armed
  /\ \A i \in TimerSlots, j \in TimerIdxs : pm_alarm[i][j].armed => pm_alarm[i][j].ms > 0
  /\ PmCommit([PmPack EXCEPT
                 !.al = [i \in TimerSlots |-> [j \in TimerIdxs |->
                           IF @[i][j].armed THEN [@[i][j] EXCEPT !.ms = @ - 1]
                           ELSE @[i][j]]]],
              [PmEv EXCEPT !.op = "Tick"])

\* An alarm is due: its callback is handed to the main thread
AlarmExpires ==
  \E i \in TimerSlots, j \in TimerIdxs :
    /\ pm_alarm[i][j].armed
    /\ pm_alarm[i][j].ms = 0
    /\ PmCommit([PmPack EXCEPT
                   !.al[i][j] = Alarm0,
                   !.q = Append(@, [PmTask EXCEPT !.t = "bta_dm_pm_timer_cback",
                                                  !.peer = pm_timer[i].peer_bdaddr,
                                                  !.slot = i, !.idx = j])],
                [PmEv EXCEPT !.op = "AlarmExpires", !.peer = pm_timer[i].peer_bdaddr])

\* The main thread runs the task at its head
RunTask ==
  /\ main_thread # <<>>
  /\ PmCommit(RunHead([PmPack EXCEPT !.q = Tail(@)], Head(main_thread)),
              [PmEv EXCEPT !.op = Head(main_thread).t, !.peer = Head(main_thread).peer,
                           !.status = Head(main_thread).status,
                           !.hci = Head(main_thread).hci_status,
                           !.task = <<Head(main_thread)>>])

\* The controller answers the oldest command of a link: the mode changes,
\* or the command fails and the link stays in its mode
CommandAnswered ==
  /\ pmghost.events < MaxModeChanges
  /\ \E peer_addr \in Peers, hci_status \in {0, 1} :
       /\ link[peer_addr].pending # <<>>
       /\ PmCommit(
            bta_dm_pm_btm_cback(
              [PmPack EXCEPT
                 !.link[peer_addr].pending = Tail(@),
                 !.link[peer_addr].mode =
                    IF hci_status = 0 THEN Head(link[peer_addr].pending) ELSE @],
              peer_addr,
              IF hci_status = 0 THEN Head(link[peer_addr].pending)
              ELSE link[peer_addr].mode,
              0, hci_status),
            [PmEv EXCEPT !.op = "ModeChange", !.peer = peer_addr,
                         !.status = Head(link[peer_addr].pending), !.hci = hci_status])

\* The peer changes the mode of the link, or the sniff subrating
RemoteChange ==
  /\ pmghost.events < MaxModeChanges
  /\ \E peer_addr \in Peers, status \in {"ACTIVE", "SNIFF", "SSR"}, interval \in {0, 1} :
       /\ \E id \in PmServices : <<peer_addr, id>> \in pmghost.open
       /\ link[peer_addr].pending = <<>>
       /\ status # link[peer_addr].mode
       /\ status = "SSR" => link[peer_addr].ssr
       /\ status # "SSR" => interval = 0
       /\ PmCommit(
            bta_dm_pm_btm_cback(
              [PmPack EXCEPT !.link[peer_addr].mode = IF status = "SSR" THEN @ ELSE status],
              peer_addr, status, interval, 0),
            [PmEv EXCEPT !.op = "ModeChange", !.peer = peer_addr, !.status = status])

\* The peer of the specifications that follow one link
OnePeer == {1}

NextPm ==
  \/ ConnStatus(OnePeer, ConnStatuses, MaxStatus)
  \/ Tick
  \/ AlarmExpires
  \/ RunTask
  \/ CommandAnswered
  \/ RemoteChange

InitPm == Started(FewAdvInstances) /\ Environment /\ advertising_api_type_ = "EXTENDED"

SpecPm == InitPm /\ [][NextPm]_vars

\* A profile that asks for park next to one that asks for sniff, on one link
\* whose controller refuses commands
ParkServices == {"BTA_ID_AG", "BTA_ID_PAN"}

NextPark ==
  \/ ConnStatusOf(OnePeer, ParkServices, {"BTA_SYS_CONN_OPEN", "BTA_SYS_CONN_IDLE"}, MaxStatus)
  \/ Tick
  \/ AlarmExpires
  \/ RunTask
  \/ CommandAnswered

SpecPark == InitPm /\ [][NextPark]_vars

\* The power manager is disabled while tasks wait on the main thread
DisablePm ==
  /\ ~pmghost.disabled
  /\ PmCommit(bta_dm_disable_pm(PmPack), [PmEv EXCEPT !.op = "bta_dm_disable_pm"])

\* bta_sys and BTM call the callbacks of the power manager while they are
\* registered
NextDisable ==
  \/ ~pmghost.disabled /\ ConnStatus(OnePeer, {"BTA_SYS_CONN_OPEN", "BTA_SYS_CONN_IDLE"}, MaxStatus)
  \/ Tick
  \/ AlarmExpires
  \/ RunTask
  \/ ~pmghost.disabled /\ CommandAnswered
  \/ ~pmghost.disabled /\ RemoteChange
  \/ DisablePm

SpecDisable == InitPm /\ [][NextDisable]_vars

\* Two links, each with a profile that asks for sniff and one that asks for
\* park
NextLinks ==
  \/ ConnStatusOf(Peers, ParkServices, {"BTA_SYS_CONN_OPEN", "BTA_SYS_CONN_IDLE"}, MaxStatus)
  \/ Tick
  \/ AlarmExpires
  \/ RunTask
  \/ CommandAnswered

SpecLinks == InitPm /\ [][NextLinks]_vars

\* Several links carry SCO: the profiles open their connections and SCO and
\* report idle, all before the first timer is due
ScoStatuses3 == {"BTA_SYS_CONN_OPEN", "BTA_SYS_SCO_OPEN", "BTA_SYS_CONN_IDLE"}

NextSco == ConnStatus(Peers, ScoStatuses3, MaxScoStatus)

SpecSco == InitPm /\ [][NextSco]_vars

(***************************************************************************)
(* Properties: allocation of advertiser ids.                               *)
(***************************************************************************)
\* The number of sets the controller reports; the vendor API keeps id 0 out
ControllerMax ==
  IF advertising_api_type_ = "ANDROID_HCI" THEN num_instances_ - 1
  ELSE num_instances_

\* The first id allocate_advertiser hands out
FirstId == IF advertising_api_type_ = "ANDROID_HCI" THEN 1 ELSE 0

\* C1: the ids in use lie in [0, num_instances), there is one record per id,
\* and there are never more of them than the controller supports (for the
\* vendor API, never more than max_advt_instances = num_instances - 1).
C1_InUseWithinBounds ==
  /\ InUse(advertising_sets_) \subseteq 0..(num_instances_ - 1)
  /\ Cardinality(InUse(advertising_sets_)) <= ControllerMax
  /\ advertising_api_type_ = "ANDROID_HCI" => 0 \notin InUse(advertising_sets_)

\* An allocation has just filled the last free id
C1_AllInUse ==
  /\ ev.op \in {"Register", "Create"}
  /\ ev.ret \in Ids
  /\ Cardinality(InUse(advertising_sets_)) = ControllerMax

\* The smallest id of [FirstId, num_instances) that is not in use
SmallestNotInUse ==
  LET free == (FirstId..(num_instances_ - 1)) \ InUse(advertising_sets_)
  IN IF free = {} THEN kInvalidId
     ELSE CHOOSE id \in free : \A other \in free : id <= other

\* C2: a call that reaches allocate_advertiser gets the smallest id that is
\* not in use, and gets the invalid id only when every id is in use.
C2_AllocatesSmallestNotInUse ==
  [][(ev'.op \in {"Register", "Create"} /\ ev'.ret # NoId)
       => ev'.ret = SmallestNotInUse]_vars

(***************************************************************************)
(* Properties: address rotation and the events of the controller.          *)
(***************************************************************************)
EvCommands == SelectSeq(ev.log, LAMBDA e : e.k = "cmd")

IsEnableOf(e, id, enable) ==
  /\ e.k = "cmd" /\ e.op = EnableOp /\ e.en = enable
  /\ id \in EnableTargets(<<e>>, enable)

\* The rotation timer has fired for an enabled connectable set
RotationOfEnabledConnectable ==
  /\ ev.op = "RotationTimer"
  /\ advertising_api_type_ = "EXTENDED"
  /\ enabled_sets_[ev.id].advertising_handle_ # kInvalidHandle
  /\ advertising_sets_[ev.id].connectable

\* Disable first, Enable last, one address command in between that carries
\* the address minted for this firing, and the alarm scheduled again
RotationSequence ==
  LET c == EvCommands
      addr == {i \in 1..Len(c) :
                 c[i].op = "LE_SET_ADVERTISING_SET_RANDOM_ADDRESS"}
  IN /\ Len(c) >= 3
     /\ IsEnableOf(c[1], ev.id, FALSE)
     /\ IsEnableOf(c[Len(c)], ev.id, TRUE)
     /\ Cardinality(addr) = 1
     /\ \A i \in addr :
          /\ 1 < i /\ i < Len(c)
          /\ c[i].id = ev.id
          /\ c[i].addr.type = "RANDOM_DEVICE_ADDRESS"
          /\ c[i].addr.src \in {"NewResolvableAddress", "NewNonResolvableAddress"}
          /\ c[i].addr.val = ev.na
     /\ advertising_sets_[ev.id].address_rotation_alarm

\* C3 as stated: every firing of the rotation timer for an enabled connectable
\* set enqueues Disable, one random address command with a new address, and
\* Enable, and schedules the alarm again.
C3_RotationSequence == RotationOfEnabledConnectable => RotationSequence

\* C3 amended: the same, for the firings while the manager is not paused.
C3_RotationSequenceUnlessPaused ==
  (RotationOfEnabledConnectable /\ ~paused) => RotationSequence

\* A rotation that changes the address of an enabled connectable set
C3_Rotated ==
  /\ RotationOfEnabledConnectable /\ ~paused
  /\ ev.na # advertising_sets_[ev.id].current_address.val

\* The statuses of a set that ran out of time or of events
TimeoutStatuses == {"LIMIT_REACHED", "ADVERTISING_TIMEOUT"}

\* advertising_sets_[id] as operator[] gives it
Adv(id) ==
  IF id \in DOMAIN advertising_sets_ THEN advertising_sets_[id] ELSE Advertiser0

Entries(log, op, id, st) ==
  {i \in Reported(log, op) : log[i].id = id /\ log[i].st = st}

NoEnableCommand(log) ==
  \A i \in 1..Len(log) : ~(log[i].k = "cmd" /\ log[i].op = EnableOp)

\* C9: on set terminated with LIMIT_REACHED or ADVERTISING_TIMEOUT a local set
\* gets its timeout callback with that status, once in its lifetime, and no
\* OnAdvertisingEnabled; another set gets OnAdvertisingEnabled(id, false,
\* status); no Enable command is enqueued, the set is marked not enabled and
\* its rotation alarm is cancelled.
C9_TimeoutTermination ==
  [][(ev'.op = "SetTerminated" /\ ev'.st \in TimeoutStatuses) =>
       /\ IF id_map_[ev'.id] = kIdLocal
          THEN /\ Reported(ev'.log, "OnAdvertisingEnabled") = {}
               /\ Reported(ev'.log, "timeout_callback")
                    = Entries(ev'.log, "timeout_callback", ev'.id, ev'.st)
               /\ Cardinality(Reported(ev'.log, "timeout_callback")) =
                    IF ev'.id \in ghost.local \ ghost.timedOut THEN 1 ELSE 0
               /\ ~ghost'.twice
          ELSE /\ Reported(ev'.log, "timeout_callback") = {}
               /\ Cardinality(Reported(ev'.log, "OnAdvertisingEnabled")) = 1
               /\ \A i \in Reported(ev'.log, "OnAdvertisingEnabled") :
                    /\ ev'.log[i].id = ev'.id
                    /\ ~ev'.log[i].en
                    /\ ev'.log[i].st = ev'.st
       /\ NoEnableCommand(ev'.log)
       /\ enabled_sets_'[ev'.id].advertising_handle_ = kInvalidHandle
       /\ ~advertising_sets_'[ev'.id].address_rotation_alarm]_vars

\* A local set has timed out for the second time in its lifetime
C9_SecondTimeout ==
  /\ ev.op = "SetTerminated" /\ ev.st \in TimeoutStatuses
  /\ id_map_[ev.id] = kIdLocal
  /\ ev.id \in ghost.timedOut
  /\ Reported(ev.log, "timeout_callback") = {}

\* C10: on set terminated with another status the set is enabled again exactly
\* when it is not directed and has no duration and no event limit; then the
\* rotation alarm is scheduled again if there was one; otherwise the set stays
\* marked not enabled, without alarm.
C10_Reenable ==
  [][(/\ ev'.op = "SetTerminated"
      /\ ev'.st \notin TimeoutStatuses
      /\ ev'.st # "OPERATION_CANCELLED_BY_HOST") =>
       LET id == ev'.id
           reenabled == \E i \in 1..Len(ev'.log) :
                          IsEnableOf(ev'.log[i], id, TRUE)
       IN /\ reenabled <=> /\ ~Adv(id).directed
                           /\ Adv(id).duration = 0
                           /\ Adv(id).max_extended_advertising_events = 0
          /\ reenabled =>
               /\ advertising_sets_'[id].address_rotation_alarm
                    <=> Adv(id).address_rotation_alarm
               /\ enabled_sets_'[id].advertising_handle_ = id
          /\ ~reenabled =>
               /\ enabled_sets_'[id].advertising_handle_ = kInvalidHandle
               /\ ~advertising_sets_'[id].address_rotation_alarm]_vars

\* A rotating set was enabled again after a connection
C10_ReenabledRotating ==
  /\ ev.op = "SetTerminated" /\ ev.st = "SUCCESS"
  /\ \E i \in 1..Len(ev.log) : IsEnableOf(ev.log[i], ev.id, TRUE)
  /\ advertising_sets_[ev.id].address_rotation_alarm

(***************************************************************************)
(* Properties: pause and resume.                                           *)
(***************************************************************************)
\* The step called the address manager once, with name, after its commands
AckedOnce(log, name) ==
  /\ Len(log) > 0
  /\ log[Len(log)].k = "am" /\ log[Len(log)].op = name
  /\ Cardinality({i \in 1..Len(log) : log[i].k = "am"}) = 1

\* The enable commands of the step name exactly the sets of want; the legacy
\* command names no set and stands for all of them
EnablesExactly(log, enable, want) ==
  IF advertising_api_type_ = "LEGACY"
  THEN (EnableTargets(log, enable) # {}) <=> (want # {})
  ELSE EnableTargets(log, enable) = want

\* C4: OnPause disables the sets that are enabled; OnResume enables exactly
\* the sets that were enabled at the pause or created during it and were not
\* disabled, removed or reset since, so that a set that was not enabled is not
\* advertising afterwards; each acknowledges the address manager once, after
\* its commands.  ghost.on is that set of sets.
C4_PauseResume ==
  /\ ev.op = "OnPause" =>
       /\ advertising_api_type_ # "LEGACY"
            => ghost.on \subseteq EnableTargets(ev.log, FALSE)
       /\ advertising_api_type_ = "LEGACY"
            => (ghost.on # {} => EnableTargets(ev.log, FALSE) # {})
       /\ AckedOnce(ev.log, "AckPause")
  /\ ev.op = "OnResume" =>
       /\ EnablesExactly(ev.log, TRUE, ghost.on)
       /\ AckedOnce(ev.log, "AckResume")

\* C5: a set created while paused gets no Enable command, is recorded in
\* enabled_sets_ (with its duration and events where the API has them), and
\* the next OnResume enables it.
C5_CreateWhilePaused ==
  [][/\ (ev'.op = "Create" /\ paused' /\ ev'.ret \in Ids /\ NoError(ev'.log)) =>
          /\ ev'.ret \notin EnableTargets(ev'.log, TRUE)
          /\ EnableTargets(ev'.log, TRUE) = {}
          /\ enabled_sets_'[ev'.ret].advertising_handle_ = ev'.ret
          /\ advertising_api_type_ = "EXTENDED" =>
               enabled_sets_'[ev'.ret] = EnabledSet(ev'.ret, ev'.dur, ev'.mx)
     /\ ev'.op = "OnResume" =>
          IF advertising_api_type_ = "LEGACY"
          THEN ghost.pending # {} => EnableTargets(ev'.log, TRUE) # {}
          ELSE ghost.pending \subseteq EnableTargets(ev'.log, TRUE)]_vars

(***************************************************************************)
(* Properties: data writes.                                                *)
(***************************************************************************)
IsWrite == ev.op \in {"SetData", "SetEncData"}

\* The element list a write sends: the plain elements, with FLAGS in front
\* where the set is connectable and discoverable, then the sealed element
SentData ==
  LET adv == advertising_sets_[ev.id]
      w == WritePool[ev.write]
      plain == FillTxPower(InsertFlags(adv, ev.scan, w.data), adv.tx_power)
  IN IF ev.op = "SetEncData" /\ w.enc # <<>>
     THEN Append(plain, EncryptedAdvertising(FillTxPower(w.enc, adv.tx_power)))
     ELSE plain

IsDataCmd(e) == e.k = "cmd" /\ e.op \in {DataOp(TRUE), DataOp(FALSE)}
IsDataCallback(e) ==
  e.k = "cb" /\ e.op \in {"OnAdvertisingDataSet", "OnScanResponseDataSet"}

DataCmds(log) == SelectSeq(log, IsDataCmd)
DataCallbacks(log) == SelectSeq(log, IsDataCallback)

\* The step did nothing but deliver the data-set callback with status
ReportedOnly(status) ==
  ev.log = <<[DataSetCallback(ev.id, ev.scan, status) EXCEPT !.k = "cb"]>>

\* C6 as stated: a write whose serialized length, FLAGS counted, exceeds the
\* controller's maximum advertising data length reports DATA_TOO_LARGE and
\* enqueues no command, whatever the sizes of the elements.
C6_TooLargeReported ==
  (IsWrite /\ SumSizes(SentData) > le_maximum_advertising_data_length_)
    => ReportedOnly("DATA_TOO_LARGE")

\* On the extended API an element longer than the limit of its write path is
\* looked at before the total length
ElementTooLarge ==
  /\ advertising_api_type_ = "EXTENDED"
  /\ \E i \in 1..Len(SentData) :
       GapSize(SentData[i]) >
         (IF ev.op = "SetData" /\ ~flags.divide_long_single_gap_data
          THEN kLeMaximumFragmentLength ELSE kLeMaximumGapDataLength)

\* C6 amended: a write whose serialized length, FLAGS counted, exceeds the
\* controller's maximum advertising data length reports DATA_TOO_LARGE and
\* enqueues no command, unless on the extended API one of its elements is
\* longer than the element limit; such a write reports INTERNAL_ERROR and
\* enqueues no command.
C6_TooLargeReportedUnlessElement ==
  /\ (IsWrite /\ ~ElementTooLarge
        /\ SumSizes(SentData) > le_maximum_advertising_data_length_)
       => ReportedOnly("DATA_TOO_LARGE")
  /\ (IsWrite /\ ElementTooLarge) => ReportedOnly("INTERNAL_ERROR")

C6_SealedTooLarge ==
  /\ ev.op = "SetEncData" /\ WritePool[ev.write].enc # <<>>
  /\ ~ElementTooLarge
  /\ SumSizes(SentData) > le_maximum_advertising_data_length_
  /\ Len(DataCallbacks(ev.log)) = 1

RECURSIVE Payloads(_)
Payloads(cmds) ==
  IF cmds = <<>> THEN <<>> ELSE Head(cmds).pay \o Payloads(Tail(cmds))

FragmentPattern(cmds) ==
  /\ Len(cmds) >= 2
  /\ cmds[1].frag = "FIRST_FRAGMENT"
  /\ cmds[Len(cmds)].frag = "LAST_FRAGMENT"
  /\ \A i \in 2..(Len(cmds) - 1) : cmds[i].frag = "INTERMEDIATE_FRAGMENT"

\* C7: on the extended API a write that is not rejected sends data longer
\* than the fragment limit as FIRST, INTERMEDIATE*, LAST and shorter data as
\* one COMPLETE operation; no command carries more than the fragment limit
\* and the payloads together are the serialization of the elements sent.
C7_Fragments ==
  (advertising_api_type_ = "EXTENDED" /\ IsWrite
     /\ DataCallbacks(ev.log) = <<>>)
    => /\ Payloads(DataCmds(ev.log)) = SerializeAll(SentData)
       /\ \A i \in 1..Len(DataCmds(ev.log)) :
            Len(DataCmds(ev.log)[i].pay) <= kLeMaximumFragmentLength
       /\ IF SumSizes(SentData) > kLeMaximumFragmentLength
          THEN FragmentPattern(DataCmds(ev.log))
          ELSE /\ Len(DataCmds(ev.log)) = 1
               /\ DataCmds(ev.log)[1].frag = "COMPLETE_ADVERTISEMENT"

\* C8: on a started set that a client registered, the completion of a data
\* command delivers one data-set callback when the command was the whole
\* data, the COMPLETE or the LAST operation, and none when it was the FIRST
\* or an INTERMEDIATE operation.
C8_CallbackAtFinalFragment ==
  (/\ ev.op = "HciComplete"
   /\ ev.c.k = "check_status_with_id"
   /\ ev.c.opc \in {DataOp(TRUE), DataOp(FALSE)}
   /\ advertising_sets_[ev.c.id].started
   /\ id_map_[ev.c.id] # kIdLocal)
    => Len(DataCallbacks(ev.log)) =
         IF ev.c.frag \in {"FIRST_FRAGMENT", "INTERMEDIATE_FRAGMENT"} THEN 0
         ELSE 1


(***************************************************************************)
(* Properties: the rotation alarm.                                         *)
(***************************************************************************)
RandomTypes == {"RESOLVABLE_RANDOM", "NONRESOLVABLE_RANDOM"}

\* enabled_sets_[id] holds a valid handle
RecordedEnabled(id) ==
  id \in DOMAIN enabled_sets_ /\ enabled_sets_[id].advertising_handle_ # kInvalidHandle

\* C11: whenever a set has an address rotation alarm, the set is recorded as
\* enabled in enabled_sets_ and its address type is RESOLVABLE_RANDOM or
\* NONRESOLVABLE_RANDOM.
C11_AlarmOnlyWhenEnabled ==
  \A id \in DOMAIN advertising_sets_ :
    advertising_sets_[id].address_rotation_alarm
      => /\ RecordedEnabled(id)
         /\ advertising_sets_[id].address_type \in RandomTypes


(***************************************************************************)
(* Properties: the power manager's timers.                                 *)
(***************************************************************************)
ActiveIndices(i) == {j \in TimerIdxs : pm_timer[i].srvc_id[j] # "BTA_ID_MAX"}

Requested(peer_addr) ==
  {SpecOf(bta_dm_conn_srvcs[n].id, bta_dm_conn_srvcs[n].app_id)
     .actn_tbl[bta_dm_conn_srvcs[n].state].power_mode :
     n \in {k \in 1..Len(bta_dm_conn_srvcs) :
              bta_dm_conn_srvcs[k].peer_bdaddr = peer_addr}}

\* The largest of them that has no bit of pm_mode_failed, or NO_ACTION
LargestNotFailed(peer_addr) ==
  LET ok == {a \in Requested(peer_addr) :
               BitAnd(a, device_list[peer_addr].pm_mode_failed) = 0}
  IN IF ok = {} THEN BTA_DM_PM_NO_ACTION ELSE CHOOSE a \in ok : \A b \in ok : b <= a

\* The entries of the last step that arm a timer or call BTM_SetPowerMode
ActedUpon ==
  {n \in 1..Len(pmev.log) :
     pmev.log[n].k = "start" \/ pmev.log[n].op = "BTM_SetPowerMode"}

PeerAlarms(peer_addr) ==
  {ij \in TimerSlots \X TimerIdxs :
     /\ pm_timer[ij[1]].peer_bdaddr = peer_addr
     /\ pm_alarm[ij[1]][ij[2]].armed}

\* C14: when a further service opens on a peer while the timer armed for an
\* earlier service has not run its action and the new decision is a sniff
\* mode, one timer is armed from that decision, no sniff command is issued for the peer while that timer is
\* still armed, and at most one sniff command follows.
C14_OneSniffAtNewExpiry ==
  \A q \in Peers :
    pmghost.second[q].on
      => /\ /\ pmev.op = "bta_dm_pm_cback"
            /\ pmev.peer = q
            /\ BitAnd(LargestNotFailed(q), BTA_DM_PM_SNIFF) # 0
            => Cardinality(PeerAlarms(q)) = 1
         /\ Issued(pmev.log, q, "SNIFF") # {} => PeerAlarms(q) = {}
         /\ pmghost.second[q].sniffs <= 1

(***************************************************************************)
(* Properties: sniff subrating and SCO.                                    *)
(***************************************************************************)
\* Some entry of the peer is the AG service in BTA_SYS_SCO_OPEN
ScoOpenOn(peer_addr) ==
  \E n \in 1..Len(bta_dm_conn_srvcs) :
    /\ bta_dm_conn_srvcs[n].peer_bdaddr = peer_addr
    /\ bta_dm_conn_srvcs[n].id = "BTA_ID_AG"
    /\ bta_dm_conn_srvcs[n].state = "BTA_SYS_SCO_OPEN"

\* C15: while some connected-services entry of a peer is the AG service in
\* state SCO_OPEN, no step of the power manager calls BTM_SetSsrParams with
\* the parameters of an SSR entry for that peer, also when several peers
\* have SCO open.
C15_NoSsrWhileScoOpen ==
  \A n \in 1..Len(pmev.log) :
    pmev.log[n].op = "BTM_SetSsrParams" /\ pmev.log[n].ssr # BTA_DM_PM_SSR0
      => ~ScoOpenOn(pmev.log[n].peer)

(***************************************************************************)
(* Properties: a low power mode that failed.                               *)
(***************************************************************************)
\* C16: after a sniff or park attempt on a peer was reported failed by a
\* mode change event ACTIVE with a failure status, no step arms a timer for
\* that mode or issues it for the peer until a BTA_SYS_CONN_OPEN of the peer
\* has been processed; no other status change clears the record.
C16_FailedModeNotRetried ==
  \A n \in ActedUpon :
    BitAnd(pmev.log[n].action, pmghost.failed[pmev.log[n].peer]) = 0

(***************************************************************************)
(* Properties: the commands a link has not answered.                       *)
(***************************************************************************)
\* The strictness of a mode is the value of its action
Strictness(mode) ==
  CASE mode = "PARK" -> BTA_DM_PM_PARK
    [] mode = "SNIFF" -> BTA_DM_PM_SNIFF
    [] OTHER -> BTA_DM_PM_ACTIVE

\* C17: for each peer the power mode commands issued and not yet answered
\* by a mode change event hold each mode at most once, and none of them was
\* issued while one of equal or greater strictness was not answered.
C17_OnePendingPerMode ==
  \A q \in Peers :
    \A a, b \in 1..Len(link[q].pending) :
      a < b => Strictness(link[q].pending[a]) < Strictness(link[q].pending[b])

(***************************************************************************)
(* Properties: a timer stopped after its alarm fired.                      *)
(***************************************************************************)
\* The last step ran the expiry callback of an alarm that was cancelled
\* after it had fired
CancelledCallbackRan ==
  /\ pmev.op = "bta_dm_pm_timer_cback"
  /\ pmev.task[1].cancelled

\* C18: the expiry callback of a timer index that was stopped after its
\* alarm fired is a no-op: it neither decrements active nor changes a
\* srvc_id of the slot nor posts a bta_dm_pm_timer task.
C18_CancelledCallbackNoOp == CancelledCallbackRan => pmev.log = <<>>

(***************************************************************************)
(* Properties: completions of commands.                                    *)
(***************************************************************************)
EnableHandlers ==
  {"on_set_advertising_enable_complete",
   "on_set_extended_advertising_enable_complete"}

\* The sets a completion is bound to
ClosureIds(c) ==
  IF c.k \in EnableHandlers
  THEN {c.es[n].advertising_handle_ : n \in 1..Len(c.es)} \ {kInvalidHandle}
  ELSE {c.id}

\* Those of them that have no record: they were removed or reset
RemovedIds(c) == ClosureIds(c) \ DOMAIN advertising_sets_

LateCompletionIgnored ==
  /\ hci # <<>>
  /\ ev'.op = "HciComplete"
  /\ RemovedIds(Head(hci)) # {}
  => /\ DOMAIN advertising_sets_' = DOMAIN advertising_sets_
     /\ \A n \in 1..Len(ev'.log) :
          ev'.log[n].k = "cb" => ev'.log[n].id \notin RemovedIds(Head(hci))

\* C19: a command completion that arrives after its advertising set was
\* removed or reset creates no record in advertising_sets_, so that the ids
\* in use and the ids that can be allocated stay as they are, and delivers
\* no callback for the removed set.
C19_LateCompletionIgnored == [][LateCompletionIgnored]_vars

EnableCallbacks == {"OnAdvertisingSetStarted", "OnAdvertisingEnabled"}

\* C20: when the controller completes an enable or disable command with a
\* status that is not success, every OnAdvertisingSetStarted and
\* OnAdvertisingEnabled callback of the completion carries INTERNAL_ERROR,
\* under each API type.
C20_EnableFailureReported ==
  /\ ev.op = "HciComplete"
  /\ ~ev.ok
  /\ ev.c.k \in EnableHandlers
  => \A n \in 1..Len(ev.log) :
       ev.log[n].k = "cb" /\ ev.log[n].op \in EnableCallbacks
         => ev.log[n].st = "INTERNAL_ERROR"

(***************************************************************************)
(* Properties: the release of a set whose start failed.                    *)
(***************************************************************************)
\* The sets for which a step delivered OnAdvertisingSetStarted with a status
\* that is not SUCCESS
FailedStarts(log) ==
  {log[n].id : n \in {k \in Reported(log, "OnAdvertisingSetStarted") :
                        log[k].st # "SUCCESS"}} \ {kInvalidId}

\* The sets of a completed command that had started before it completed
StartedSetsOf(c) ==
  {id \in ClosureIds(c) \cap DOMAIN advertising_sets_ :
     advertising_sets_[id].started}

ReleasedOnFailedStart ==
  /\ FailedStarts(ev'.log) \subseteq posts'
  /\ posts' \ posts \subseteq FailedStarts(ev'.log)
  /\ ev'.op = "ShimReset"
       => /\ ev'.id \notin DOMAIN advertising_sets_'
          /\ InUse(advertising_sets_') = InUse(advertising_sets_) \ {ev'.id}
          /\ ev'.id \notin posts'
  /\ ev'.op \notin {"ShimReset", "RemoveAdvertiser"}
       => DOMAIN advertising_sets_ \subseteq DOMAIN advertising_sets_'
  /\ ev'.op = "Create" /\ ~NoError(ev'.log)
       => InUse(advertising_sets_') \ posts' = InUse(advertising_sets_) \ posts'
  /\ ev'.op = "HciComplete" /\ ~ev'.ok
       => \A id \in StartedSetsOf(Head(hci)) :
            id \in DOMAIN advertising_sets_' /\ id \notin posts' \ posts

InvalidConfig(config) ==
  \/ config.directed /\ config.peer_address_empty
  \/ config.channel_map = 0
  \/ ~config.legacy_pdus /\ config.connectable /\ config.scannable
  \/ ~config.legacy_pdus /\ config.high_duty_directed_connectable
  \/ config.interval_min > config.interval_max

\* The last step was a create call with an invalid configuration
InvalidCreate(e) ==
  /\ e.op = "Create"
  /\ advertising_api_type_ = "EXTENDED"
  /\ InvalidConfig(CreatePool[e.cfg].config)

InvalidConfigRefused ==
  InvalidCreate(ev')
    => /\ Len(ev'.log) = 1
       /\ ev'.log[1].k = "cb"
       /\ ev'.log[1].op = "OnAdvertisingSetStarted"
       /\ ev'.log[1].reg \in RegIds
       /\ ev'.log[1].id = kInvalidId
       /\ ev'.log[1].st = "INTERNAL_ERROR"
       /\ advertising_sets_' = advertising_sets_
       /\ address_manager_registered' = address_manager_registered
       /\ hci' = hci
       /\ id_map_' = id_map_

\* C22: on the Extended API a create call with an invalid configuration
\* delivers OnAdvertisingSetStarted(reg_id, kInvalidId, INTERNAL_ERROR) and
\* nothing else: it allocates no advertiser id, does not register with the
\* address manager and enqueues no HCI command.
C22_InvalidConfigRefused == [][InvalidConfigRefused]_vars

\* A set is advertising and a create call with min > max has been refused
C22_IntervalRefused ==
  /\ InvalidCreate(ev)
  /\ CreatePool[ev.cfg].config.interval_min > CreatePool[ev.cfg].config.interval_max
  /\ InUse(advertising_sets_) # {}
  /\ Reported(ev.log, "OnAdvertisingSetStarted") # {}

(***************************************************************************)
(* Properties: the address type of a set.                                  *)
(***************************************************************************)
\* The table of the address policy module: the stricter of the request and
\* the policy, where strictness grows from RPA over NRPA to Public
PolicyTable(requested, policy) ==
  IF requested = "PUBLIC"
     \/ policy \in {"USE_PUBLIC_ADDRESS", "USE_STATIC_ADDRESS"}
  THEN "PUBLIC"
  ELSE IF requested = "NONRESOLVABLE_RANDOM"
          \/ policy = "USE_NON_RESOLVABLE_ADDRESS"
  THEN "NONRESOLVABLE_RANDOM"
  ELSE "RESOLVABLE_RANDOM"

\* The last step created a set; its configuration and its record
Created == ev.op = "Create" /\ ev.ret \in DOMAIN advertising_sets_
CreatedConfig == CreatePool[ev.cfg].config
CreatedSet == advertising_sets_[ev.ret]

\* C23 as stated: the effective address type of every set is the entry of
\* the policy table for the requested type and the policy of the host.
C23_PolicyTable ==
  Created
    => CreatedSet.address_type
         = PolicyTable(CreatedConfig.requested_advertiser_address_type,
                       address_policy)

\* C23: the effective address type of a set is the entry of the policy
\* table for the requested type and the policy of the host, for every
\* connectable set and, while the flag nrpa_non_connectable_adv is clear,
\* for every set.
C23_PolicyTableUnlessBeacon ==
  Created /\ (CreatedConfig.connectable \/ ~flags.nrpa_non_connectable_adv)
    => CreatedSet.address_type
         = PolicyTable(CreatedConfig.requested_advertiser_address_type,
                       address_policy)

\* A connectable set that asked for an RPA got an NRPA from the policy
C23_Narrowed ==
  /\ Created
  /\ CreatedConfig.connectable
  /\ CreatedConfig.requested_advertiser_address_type = "RESOLVABLE_RANDOM"
  /\ address_policy = "USE_NON_RESOLVABLE_ADDRESS"
  /\ CreatedSet.address_type = "NONRESOLVABLE_RANDOM"

\* The last step created a beacon under the flag and an identity policy
BeaconUnderIdentityPolicy ==
  /\ Created
  /\ flags.nrpa_non_connectable_adv
  /\ ~CreatedConfig.connectable
  /\ address_policy \in {"USE_PUBLIC_ADDRESS", "USE_STATIC_ADDRESS"}

\* C24 as stated: with the flag nrpa_non_connectable_adv set, a set that is
\* not connectable and is created under a Public or Static policy has the
\* effective address type NONRESOLVABLE_RANDOM whatever type was requested.
C24_BeaconNeverIdentity ==
  BeaconUnderIdentityPolicy => CreatedSet.address_type = "NONRESOLVABLE_RANDOM"

\* C24: with the flag nrpa_non_connectable_adv set, a set that is not
\* connectable and is created under a Public or Static policy has the
\* effective address type NONRESOLVABLE_RANDOM and a freshly minted
\* non-resolvable address when RPA or NRPA was requested, and the type PUBLIC
\* with the identity address when PUBLIC was requested.
C24_BeaconIdentityOnRequest ==
  BeaconUnderIdentityPolicy
    => IF CreatedConfig.requested_advertiser_address_type = "PUBLIC"
       THEN /\ CreatedSet.address_type = "PUBLIC"
            /\ CreatedSet.current_address.src \in {"mac", "initiator"}
       ELSE /\ CreatedSet.address_type = "NONRESOLVABLE_RANDOM"
            /\ CreatedSet.current_address.src = "NewNonResolvableAddress"

\* A beacon that asked for an RPA under the Static policy got an NRPA
C24_BeaconGotNrpa ==
  /\ BeaconUnderIdentityPolicy
  /\ address_policy = "USE_STATIC_ADDRESS"
  /\ CreatedConfig.requested_advertiser_address_type = "RESOLVABLE_RANDOM"
  /\ CreatedSet.address_type = "NONRESOLVABLE_RANDOM"

(***************************************************************************)
(* Properties: the tx power of a set.                                      *)
(***************************************************************************)
Clipped(number) ==
  IF number < kLeAdvertisingTxPowerMin THEN kLeAdvertisingTxPowerMin
  ELSE IF number > kLeAdvertisingTxPowerMax THEN kLeAdvertisingTxPowerMax
  ELSE number

\* C25: the tx power that set_parameters stores in the record of a set is
\* the requested tx power plus the path loss compensation, clipped to
\* [-127, 20], for every requested tx power and every compensation.
C25_TxPowerClipped ==
  Created
    => CreatedSet.tx_power = Clipped(CreatedConfig.tx_power + le_tx_path_loss_comp_)

(***************************************************************************)
(* Properties: the key material of encrypted advertising.                  *)
(***************************************************************************)
\* The last step processed the third LE_RAND completion of a run
RunCompleted == keyev.op = "GenerateKeyIV" /\ keyev.iteration = 3

\* C26: the third LE_RAND completion of every generation run, the first and
\* the second alike, writes one value of 32 bytes to storage, a 16-byte key
\* followed by a 16-byte IV, and then fires the key material callback once
\* with the same bytes; the first two completions write and report nothing.
C26_KeyMaterial32 ==
  /\ RunCompleted
       => /\ Len(keyev.log) = 2
          /\ keyev.log[1].k = "SetBin"
          /\ keyev.log[2].k = "cb"
          /\ keyev.log[2].bytes = keyev.log[1].bytes
          /\ enc_data = <<keyev.log[1].bytes>>
          /\ keyev.log[1].bytes = key_iv.key \o key_iv.iv
          /\ Len(key_iv.key) = 16
          /\ Len(key_iv.iv) = 16
          /\ Len(keyev.log[1].bytes) = 32
  /\ keyev.op = "GenerateKeyIV" /\ keyev.iteration \in {1, 2} => keyev.log = <<>>

(***************************************************************************)
(* C27: the rotation alarm of an enabled set that goes off while paused    *)
(***************************************************************************)
\* The last step was the rotation alarm of a set that is remembered as
\* enabled, taken while the address manager had paused the manager
FiredWhilePaused ==
  /\ ev.op = "RotationTimer"
  /\ paused
  /\ enabled_sets_[ev.id].advertising_handle_ # kInvalidHandle

\* C27: when the rotation alarm of an enabled set goes off while the manager
\* is paused, the step enqueues no Enable(ENABLED) command that names the
\* set, neither by itself nor around the data it writes again; the set stays
\* remembered as enabled and its alarm is armed again; and an OnResume
\* enqueues Enable(ENABLED) for every set that is remembered as enabled
C27_NoEnableWhilePaused ==
  /\ FiredWhilePaused =>
       /\ ev.id \notin EnableTargets(ev.log, TRUE)
       /\ enabled_sets_[ev.id].advertising_handle_ = ev.id
       /\ advertising_sets_[ev.id].address_rotation_alarm
  /\ ev.op = "OnResume" =>
       \A id \in Ids :
         enabled_sets_[id].advertising_handle_ # kInvalidHandle
           => EnabledIn(ev.log, id)

(***************************************************************************)
(* C28: enabled sets with a random address rotate.                         *)
(***************************************************************************)
\* The sets whose address rotates: those with a random address, but for the
\* sets of the LE Audio client with a non-resolvable one; only that client
\* makes sets with a non-resolvable address here
Rotates(id) == advertising_sets_[id].address_type = "RESOLVABLE_RANDOM"

\* C28: on the Extended API, in every reachable state, a set that is recorded
\* as enabled and whose address type is random (but for a set of the LE Audio
\* client with a non-resolvable address) has its rotation alarm scheduled
C28_EnabledRandomHasAlarm ==
  advertising_api_type_ = "EXTENDED" =>
    \A id \in DOMAIN advertising_sets_ :
      RecordedEnabled(id) /\ Rotates(id)
        => advertising_sets_[id].address_rotation_alarm

(***************************************************************************)
(* C29: bta_dm_pm_set_mode finds the timer of the chosen mode armed.       *)
(***************************************************************************)
\* The entries of the last step at which bta_dm_pm_set_mode, about to start a
\* timer, read the remaining time of an armed alarm of the peer's slot
ArmedReads == {n \in 1..Len(pmev.log) : pmev.log[n].k = "remaining" /\ pmev.log[n].armed}

\* The step started the timer again after entry n
RestartedAfter(n) ==
  \E m \in (n + 1)..Len(pmev.log) :
    /\ pmev.log[m].k = "start"
    /\ pmev.log[m].slot = pmev.log[n].slot
    /\ pmev.log[m].idx = pmev.log[n].idx

\* C29: when bta_dm_pm_set_mode (NEW or RESTART, timeout > 0) finds the timer
\* of the chosen mode armed in the peer's slot, the timer afterwards expires
\* at the earlier of its deadline and now + timeout; it is cancelled and
\* started again only if its deadline was the later one; and the pass calls
\* BTM_SetPowerMode not at all
C29_EarlierDeadlineKept ==
  \A n \in ArmedReads :
    LET e == pmev.log[n]
    IN /\ pm_alarm[e.slot][e.idx].armed
       /\ pm_alarm[e.slot][e.idx].ms = Min(e.rem, e.ms)
       /\ RestartedAfter(n) <=> e.rem > e.ms
       /\ \A m \in (n + 1)..Len(pmev.log) : pmev.log[m].op # "BTM_SetPowerMode"

(***************************************************************************)
(* C30: reset_advertiser and remove_advertiser.                            *)
(***************************************************************************)
\* The step was remove_advertiser or reset_advertiser
Releases == ev'.op \in {"RemoveAdvertiser", "ShimReset"}

\* The step destroyed the record of id, left the set marked not enabled and
\* without alarm, and left the address manager when no record remained
Released(id) ==
  /\ id \notin DOMAIN advertising_sets_'
  /\ enabled_sets_'[id].advertising_handle_ = kInvalidHandle
  /\ DOMAIN advertising_sets_' = {} => ~address_manager_registered' /\ ~paused'
  /\ DOMAIN advertising_sets_' = {} /\ address_manager_registered
       => \E i \in 1..Len(ev'.log) : ev'.log[i].k = "am" /\ ev'.log[i].op = "Unregister"

\* The step changed nothing of the manager and enqueued no command
NothingDone ==
  /\ UNCHANGED <<advertising_sets_, enabled_sets_, id_map_,
                 address_manager_registered, paused, hci>>
  /\ ev'.log = <<>>

\* C30: reset_advertiser(id) and remove_advertiser(id) on an id with a record
\* destroy the record, mark the set not enabled and leave no rotation alarm
\* for it, under every API type; they leave the address manager and clear
\* paused when no record remains; on an id without record both change no
\* state and enqueue no command
C30_Released ==
  [][Releases =>
       IF ev'.id \in DOMAIN advertising_sets_ THEN Released(ev'.id)
       ELSE NothingDone]_vars


(***************************************************************************)
(* Rotation and sealed data.                                               *)
(***************************************************************************)
\* The serialized payload holds an ENCRYPTED_ADVERTISING_DATA element
RECURSIVE HasSealedElement(_)
HasSealedElement(bytes) ==
  IF Len(bytes) < 2 THEN FALSE
  ELSE IF bytes[2] = GapTypeCode("ENCRYPTED_ADVERTISING_DATA") THEN TRUE
  ELSE HasSealedElement(SubSeq(bytes, bytes[1] + 2, Len(bytes)))

\* The step wrote data with opcode op to set id
Written(op, id) ==
  \E i \in 1..Len(ev.log) :
    ev.log[i].k = "cmd" /\ ev.log[i].op = op /\ ev.log[i].id = id

\* and the data written holds a freshly sealed element
Resealed(op, id) ==
  \E i \in 1..Len(ev.log) :
    /\ ev.log[i].k = "cmd" /\ ev.log[i].op = op /\ ev.log[i].id = id
    /\ HasSealedElement(ev.log[i].pay)

\* The rotation alarm of a set that is recorded as enabled has gone off
RotatedOnTimer ==
  /\ ev.op = "RotationTimer"
  /\ enabled_sets_[ev.id].advertising_handle_ # kInvalidHandle

\* C31: on each address rotation of a set the payloads sealed anew and written
\* to the controller are exactly those of advertising data, scan response and
\* periodic data whose plaintext to seal is not empty; with all three empty
\* the rotation writes no data at all
C31_ResealedExactly ==
  RotatedOnTimer =>
    /\ Resealed(DataOp(FALSE), ev.id)
         <=> advertising_sets_[ev.id].advertisement_enc # <<>>
    /\ Resealed(DataOp(TRUE), ev.id)
         <=> advertising_sets_[ev.id].scan_response_enc # <<>>
    /\ Resealed(PeriodicDataOp, ev.id)
         <=> advertising_sets_[ev.id].periodic_data_enc # <<>>
    /\ (/\ advertising_sets_[ev.id].advertisement_enc = <<>>
        /\ advertising_sets_[ev.id].scan_response_enc = <<>>
        /\ advertising_sets_[ev.id].periodic_data_enc = <<>>)
         => ~\E op \in {DataOp(FALSE), DataOp(TRUE), PeriodicDataOp} :
               Written(op, ev.id)


(***************************************************************************)
(* A change of the IRK.                                                    *)
(***************************************************************************)
\* The set-random-address commands the step enqueued for set id
RandomAddressCmds(id) ==
  {i \in 1..Len(ev.log) :
     /\ ev.log[i].k = "cmd" /\ ev.log[i].id = id
     /\ ev.log[i].op = "LE_SET_ADVERTISING_SET_RANDOM_ADDRESS"}

\* An address that the address manager has made for the call
NewlyMinted(address) ==
  address.src \in {"NewResolvableAddress", "NewNonResolvableAddress"}

\* C32: NotifyOnIRKChange enqueues, within the call, exactly one
\* set-random-address command with a newly minted address for every set that
\* is recorded as enabled, none for the other sets, under every API type, and
\* makes no call to the address manager
C32_IRKChangeRotatesEnabled ==
  ev.op = "NotifyOnIRKChange" =>
    /\ \A id \in Ids :
         /\ Cardinality(RandomAddressCmds(id)) = IF RecordedEnabled(id) THEN 1 ELSE 0
         /\ \A i \in RandomAddressCmds(id) : NewlyMinted(ev.log[i].addr)
    /\ \A i \in 1..Len(ev.log) : ev.log[i].k # "am"


(***************************************************************************)
(* Enable commands between OnPause and OnResume.                           *)
(***************************************************************************)
\* The step enqueued a command that turns advertising on, in the legacy, the
\* vendor or the extended form
EnqueuedEnable ==
  \E i \in 1..Len(ev.log) :
    /\ ev.log[i].k = "cmd" /\ ev.log[i].en
    /\ ev.log[i].op \in {"LE_SET_ADVERTISING_ENABLE", "LE_MULTI_ADVT_SET_ENABLE",
                         "LE_SET_EXTENDED_ADVERTISING_ENABLE"}

\* C33: between an OnPause and the following OnResume no command that enables
\* advertising is enqueued, whatever call, alarm or controller event the
\* manager processes in between
C33_NoEnableBetweenPauseAndResume == paused => ~EnqueuedEnable


(***************************************************************************)
(* Sets that advertise with the public address.                            *)
(***************************************************************************)
UsesPublicAddress(sets, id) ==
  id \in DOMAIN sets /\ sets[id].current_address = MacAddress

\* C34: no set-random-address command is enqueued for a set whose current
\* address is the public device address of the controller, and the current
\* address of such a set does not change after its creation
C34_PublicAddressKept ==
  [][\A id \in Ids :
       /\ UsesPublicAddress(advertising_sets_', id) => RandomAddressCmds(id)' = {}
       /\ (/\ UsesPublicAddress(advertising_sets_, id)
           /\ id \in DOMAIN advertising_sets_'
           /\ ev'.op # "Create")
            => UsesPublicAddress(advertising_sets_', id)]_vars


(***************************************************************************)
(* Registration with the address manager.                                  *)
(***************************************************************************)
IsRegistration(e) == e.k = "am" /\ e.op \in {"Register", "Unregister"}

\* The Register and Unregister calls of a step, in the order they were made
Registrations(log) == SelectSeq(log, IsRegistration)

\* The calls alternate, beginning with the one that fits the flag before the
\* step, and the flag after the step is what the last call made it
Alternates(calls, registered_before, registered_after) ==
  /\ \A i \in 1..Len(calls) :
       calls[i].op = IF registered_before = (i % 2 = 1) THEN "Unregister"
                     ELSE "Register"
  /\ registered_after = IF Len(calls) % 2 = 0 THEN registered_before
                        ELSE ~registered_before

CompletedEnableOf(e, id) ==
  /\ e.op = "HciComplete"
  /\ e.c.k \in {"on_set_advertising_enable_complete",
                "on_set_extended_advertising_enable_complete"}
  /\ e.c.enable
  /\ \E j \in 1..Len(e.c.es) : e.c.es[j].advertising_handle_ = id

\* The on_set_started callbacks of a step for set id
SetStartedReports(log, id) ==
  {i \in 1..Len(log) :
     log[i].k = "cb" /\ log[i].op = "OnAdvertisingSetStarted" /\ log[i].id = id}

IsStarted(sets, id) == id \in DOMAIN sets /\ sets[id].started

\* C36: the started flag of a set becomes true, and on_set_started with
\* SUCCESS is delivered for it, only when an Enable = ENABLED command for the
\* set completes, never when a Disable command completes; on_set_started is
\* delivered once only: no step delivers two, or one for a started set
C36_StartedOnEnableOnly ==
  [][\A id \in Ids :
       /\ (~IsStarted(advertising_sets_, id) /\ IsStarted(advertising_sets_', id))
            => CompletedEnableOf(ev', id)
       /\ (\E i \in SetStartedReports(ev'.log, id) : ev'.log[i].st = "SUCCESS")
            => CompletedEnableOf(ev', id)
       /\ Cardinality(SetStartedReports(ev'.log, id)) <= 1
       /\ IsStarted(advertising_sets_, id) => SetStartedReports(ev'.log, id) = {}]_vars


(***************************************************************************)
(* Rejected data and the stored payloads.                                  *)
(***************************************************************************)
\* The payloads a record keeps for the next rotation
StoredPayloads(adv) ==
  <<adv.advertisement, adv.advertisement_enc, adv.scan_response,
    adv.scan_response_enc>>

\* The step reported the data of set id as rejected
Rejected(log, id) ==
  \E i \in 1..Len(log) :
    /\ log[i].k = "cb" /\ log[i].id = id
    /\ log[i].op \in {"OnAdvertisingDataSet", "OnScanResponseDataSet"}
    /\ log[i].st \in {"DATA_TOO_LARGE", "INTERNAL_ERROR"}

\* C37: a SetData call with data to seal that is rejected with DATA_TOO_LARGE
\* or INTERNAL_ERROR leaves the payloads stored in the record of the set as
\* they were before the call
C37_RejectedDataNotStored ==
  [][(ev'.op = "SetEncData" /\ Rejected(ev'.log, ev'.id))
       => /\ ev'.id \in DOMAIN advertising_sets_
          /\ StoredPayloads(advertising_sets_'[ev'.id])
               = StoredPayloads(advertising_sets_[ev'.id])]_vars


(***************************************************************************)
(* The timer slots of the peers.                                           *)
(***************************************************************************)
\* The slots in use that carry the address of the peer
SlotsOf(tm, peer_addr) ==
  {i \in TimerSlots : tm[i].in_use /\ tm[i].peer_bdaddr = peer_addr}

\* The slots that were free before the step and in which it started a timer
Claimed ==
  {i \in TimerSlots :
     /\ ~pm_timer[i].in_use
     /\ \E n \in 1..Len(pmev'.log) :
          pmev'.log[n].k = "start" /\ pmev'.log[n].slot = i}

\* C38: at most one timer slot in use carries the address of a given peer;
\* bta_dm_pm_set_mode claims a free slot for a peer only when no slot in use
\* carries the address of that peer: after a step that claimed a slot, the
\* claimed slot is the only one in use for its peer
C38_OneSlotPerPeer ==
  /\ [](\A peer_addr \in Peers : Cardinality(SlotsOf(pm_timer, peer_addr)) <= 1)
  /\ [][\A i \in Claimed : SlotsOf(pm_timer', pm_timer'[i].peer_bdaddr) = {i}]_vars

\* A timer of a peer is armed again in the slot the peer holds, while another
\* slot is free
C38_SlotKept ==
  /\ \E n \in 1..Len(pmev.log) : pmev.log[n].k = "remaining"
  /\ \E n \in 1..Len(pmev.log) : pmev.log[n].k = "start"
  /\ \E peer_addr \in Peers : Cardinality(SlotsOf(pm_timer, peer_addr)) = 1


(***************************************************************************)
(* The power manager after bta_dm_disable_pm.                              *)
(***************************************************************************)
FreeSlot(t) ==
  /\ ~t.in_use
  /\ t.active = 0
  /\ \A j \in TimerIdxs : t.srvc_id[j] = "BTA_ID_MAX"
  /\ \A j \in TimerIdxs : t.pm_action[j] = BTA_DM_PM_NO_ACTION

\* C39: after bta_dm_disable_pm every timer slot is free (not in use, no
\* active index, no service, no action) and stays free, whatever task that
\* waited on the main thread, a timer expiry or a mode change of the
\* controller, is processed afterwards
C39_FreeAfterDisable ==
  pmghost.disabled => \A i \in TimerSlots : FreeSlot(pm_timer[i])


(***************************************************************************)
(* The service a timer is armed for.                                       *)
(***************************************************************************)
\* The timers the last step armed
ArmedTimers(log) == {n \in 1..Len(log) : log[n].k = "start"}

\* The ids of the services connected on the peer
ConnectedIds(srvcs, peer_addr) ==
  {srvcs[n].id : n \in {m \in 1..Len(srvcs) : srvcs[m].peer_bdaddr = peer_addr}}

\* C40: whenever bta_dm_pm_set_mode arms a timer for a peer, the srvc_id
\* recorded for the timer index is the id of a service connected on that
\* same peer, also when the table of connected services holds entries of
\* other peers
C40_TimerOfOwnService ==
  \A n \in ArmedTimers(pmev.log) :
    pmev.log[n].srvc \in ConnectedIds(bta_dm_conn_srvcs, pmev.log[n].peer)

=============================================================================
